---- MODULE Spec2Model ----
(***************************************************************************)
(* Model of the git-worktree helper `spawn`: the porcelain worktree        *)
(* parser, the branch enumerator, the branch-name validator, the           *)
(* branch/worktree reconciliation of the menus, and the handlers of the    *)
(* commands spawn, spawn remove and spawn merge, each run from its start   *)
(* to the exit of the process, one step per prompt.                        *)
(*                                                                         *)
(* A JavaScript string is a sequence of one-character strings, so that     *)
(* startsWith, substring, trim, split and replace are computed and not     *)
(* assumed.                                                                *)
(***************************************************************************)
EXTENDS Integers, Sequences, FiniteSets, TLC

VARIABLES
    wtLines,     \* lines printed so far by `git worktree list --porcelain`
    wtCalled,    \* getWorktrees has been called
    wtText,      \* the stdout text getWorktrees received
    wtFailed,    \* the listing command failed: getWorktrees received null
    worktrees,   \* the sequence getWorktrees returned
    rmWorktrees, \* removeWorktree: the records getWorktrees gave it
    rmBranch,    \* removeWorktree: its argument branchName
    rmCalled,    \* removeWorktree: the lookup of the worktree has run
    rmFound,     \* removeWorktree: what worktrees.find returned
    vName,       \* validateBranchName: its argument
    vCalled,     \* validateBranchName has been called
    vVerdict,    \* validateBranchName: what it returned
    brLines,     \* lines printed so far by `git branch -a`
    brCalled,    \* getExistingBranches has been called
    branches,    \* the list getExistingBranches returned
    mnWorktrees, \* interactiveRemove: the records getWorktrees gave it
    mnBranches,  \* interactiveRemove: the list getExistingBranches gave it
    mnCalled,    \* interactiveRemove has built its menu
    mnMenu,      \* interactiveRemove: the choices it shows
    cliCmd,      \* the command invoked: spawn, remove or merge
    cliArgs,     \* its arguments and options
    cliEnv,      \* the repository, the disk and what git reports
    cliPc,       \* where the handler stands: start, a prompt, exited
    cliExit,     \* the exit status of the process once it has ended
    cliLog,      \* what the invocation did so far, in order
    cliCtx,      \* the branch and path the pending prompt is about
    cliMenu      \* the entries of the menu the pending prompt shows

wtVars == <<wtLines, wtCalled, wtText, wtFailed, worktrees>>

rmVars == <<rmWorktrees, rmBranch, rmCalled, rmFound>>

vVars == <<vName, vCalled, vVerdict>>

brVars == <<brLines, brCalled, branches>>

mnVars == <<mnWorktrees, mnBranches, mnCalled, mnMenu>>

cliVars == <<cliCmd, cliArgs, cliEnv, cliPc, cliExit, cliLog, cliCtx, cliMenu>>

vars == <<wtLines, wtCalled, wtText, wtFailed, worktrees,
          rmWorktrees, rmBranch, rmCalled, rmFound,
          vName, vCalled, vVerdict,
          brLines, brCalled, branches,
          mnWorktrees, mnBranches, mnCalled, mnMenu,
          cliCmd, cliArgs, cliEnv, cliPc, cliExit, cliLog, cliCtx, cliMenu>>

----------------------------------------------------------------------------
(* Bounds of the model *)

\* most lines the worktree listing prints
MaxLines == 3

\* most worktree records handed to the reconciliation
MaxWorktrees == 2

\* most pieces a candidate branch name is put together from
MaxPieces == 3

\* most lines the branch listing prints
MaxBranchLines == 3

\* most branch names handed to the removal menu
MaxBranches == 2

----------------------------------------------------------------------------
(* JavaScript string primitives *)

NL == "\n"

\* the characters /\s/ and String.prototype.trim treat as white space
IsSpace(c) == c \in {" ", "\n", "\t", "\r"}

\* s.startsWith(p)
StartsWith(s, p) == Len(s) >= Len(p) /\ SubSeq(s, 1, Len(p)) = p

\* s.endsWith(p)
EndsWith(s, p) == Len(s) >= Len(p) /\ SubSeq(s, Len(s) - Len(p) + 1, Len(s)) = p

\* s.includes(p)
Includes(s, p) == \E i \in 1..(Len(s) - Len(p) + 1) : SubSeq(s, i, i + Len(p) - 1) = p

\* s.substring(n), n counted from 0
Substring(s, n) == SubSeq(s, n + 1, Len(s))

RECURSIVE TrimStart(_)
TrimStart(s) == IF s # <<>> /\ IsSpace(Head(s)) THEN TrimStart(Tail(s)) ELSE s

RECURSIVE TrimEnd(_)
TrimEnd(s) ==
    IF s # <<>> /\ IsSpace(s[Len(s)]) THEN TrimEnd(SubSeq(s, 1, Len(s) - 1)) ELSE s

\* s.trim()
Trim(s) == TrimEnd(TrimStart(s))

\* s.split(sep) for a one-character separator, from position start on: the
\* text up to the next separator, then the split of the rest; "" splits to [""]
RECURSIVE SplitFrom(_, _, _)
SplitFrom(s, sep, start) ==
    LET seps == {i \in start..Len(s) : s[i] = sep}
    IN  IF seps = {} THEN <<SubSeq(s, start, Len(s))>>
        ELSE LET cut == CHOOSE i \in seps : \A j \in seps : i <= j
             IN  <<SubSeq(s, start, cut - 1)>> \o SplitFrom(s, sep, cut + 1)

Split(s, sep) == SplitFrom(s, sep, 1)

\* lines.join(sep)
RECURSIVE Join(_, _)
Join(ls, sep) ==
    IF ls = <<>> THEN <<>>
    ELSE IF Len(ls) = 1 THEN ls[1]
    ELSE ls[1] \o <<sep>> \o Join(Tail(ls), sep)

\* the least and the greatest number of a set
Min(S) == CHOOSE x \in S : \A y \in S : x <= y
Max(S) == CHOOSE x \in S : \A y \in S : x >= y

----------------------------------------------------------------------------
(* executeCommand: stdout text, or null when the command fails *)

Null == [isNull |-> TRUE]

Str(s) == [isNull |-> FALSE, str |-> s]

\* executeCommand as it would be if a failing command still gave its output
executeCommandKeepsOutput(run) == Str(run.stdout)

\* run = [fails |-> BOOLEAN, stdout |-> text]
executeCommand(run) == IF run.fails THEN Null ELSE Str(run.stdout)

\* !result for a string-or-null value
Falsy(result) == result.isNull \/ result.str = <<>>

\* the value of vVerdict before validateBranchName has returned
NoVerdict == [ok |-> FALSE, reason |-> "(not called)"]

\* the values of the variables of an invocation of the tool while none runs
NoArgs == [branchName |-> Null, list |-> FALSE, fromExisting |-> FALSE,
           editor |-> Null, noEditor |-> FALSE]

NoEnv == [inRepo |-> FALSE, gitRoot |-> <<>>, currentBranch |-> <<>>,
          worktrees |-> <<>>, branches |-> <<>>, onDisk |-> {}]

\* no worktree is being created, removed or merged
NoCtx == [kind |-> "none", branch |-> <<>>, path |-> <<>>, removed |-> FALSE, found |-> FALSE]

\* no menu is shown
NoMenu == [worktreeEntries |-> <<>>, branchEntries |-> <<>>, existingBranches |-> <<>>]

----------------------------------------------------------------------------
(* getWorktrees: the porcelain parser *)

pfxWorktree == <<"w", "o", "r", "k", "t", "r", "e", "e", " ">>
pfxHEAD     == <<"H", "E", "A", "D", " ">>
pfxBranch   == <<"b", "r", "a", "n", "c", "h", " ">>
kwBare      == <<"b", "a", "r", "e">>
kwDetached  == <<"d", "e", "t", "a", "c", "h", "e", "d">>
kwPrunable  == <<"p", "r", "u", "n", "a", "b", "l", "e">>

\* {} : an object with no property
EmptyObj == [k \in {} |-> <<>>]

\* obj.f = v
SetField(obj, f, v) == [k \in (DOMAIN obj) \cup {f} |-> IF k = f THEN v ELSE obj[k]]

\* currentWorktree.path is truthy: the property is there and is not ""
HasPath(cw) == "path" \in DOMAIN cw /\ cw["path"] # <<>>

\* ParseLine as it would be if a `worktree` line kept the pending accumulator
\* and only overwrote its path
ParseLineKeepsFields(line, st) ==
    IF StartsWith(line, pfxWorktree) THEN
        [cw  |-> SetField(st.cw, "path", Substring(line, Len(pfxWorktree))),
         out |-> IF HasPath(st.cw) THEN Append(st.out, st.cw) ELSE st.out]
    ELSE IF StartsWith(line, pfxHEAD) THEN
        [st EXCEPT !.cw = SetField(st.cw, "head", Substring(line, Len(pfxHEAD)))]
    ELSE IF StartsWith(line, pfxBranch) THEN
        [st EXCEPT !.cw = SetField(st.cw, "branch", Substring(line, Len(pfxBranch)))]
    ELSE IF line = kwBare THEN
        [st EXCEPT !.cw = SetField(st.cw, "bare", TRUE)]
    ELSE IF StartsWith(line, kwDetached) THEN
        [st EXCEPT !.cw = SetField(st.cw, "detached", TRUE)]
    ELSE IF line = kwPrunable THEN
        [st EXCEPT !.cw = SetField(st.cw, "prunable", TRUE)]
    ELSE IF line = <<>> THEN
        IF HasPath(st.cw)
        THEN [cw |-> EmptyObj, out |-> Append(st.out, st.cw)]
        ELSE st
    ELSE st

\* ParseLine as it would be if every `HEAD` line also marked the worktree as
\* detached
ParseLineHeadIsDetached(line, st) ==
    IF StartsWith(line, pfxWorktree) THEN
        [cw  |-> SetField(EmptyObj, "path", Substring(line, Len(pfxWorktree))),
         out |-> IF HasPath(st.cw) THEN Append(st.out, st.cw) ELSE st.out]
    ELSE IF StartsWith(line, pfxHEAD) THEN
        [st EXCEPT !.cw = SetField(SetField(st.cw, "head", Substring(line, Len(pfxHEAD))),
                                   "detached", TRUE)]
    ELSE IF StartsWith(line, pfxBranch) THEN
        [st EXCEPT !.cw = SetField(st.cw, "branch", Substring(line, Len(pfxBranch)))]
    ELSE IF line = kwBare THEN
        [st EXCEPT !.cw = SetField(st.cw, "bare", TRUE)]
    ELSE IF StartsWith(line, kwDetached) THEN
        [st EXCEPT !.cw = SetField(st.cw, "detached", TRUE)]
    ELSE IF line = kwPrunable THEN
        [st EXCEPT !.cw = SetField(st.cw, "prunable", TRUE)]
    ELSE IF line = <<>> THEN
        IF HasPath(st.cw)
        THEN [cw |-> EmptyObj, out |-> Append(st.out, st.cw)]
        ELSE st
    ELSE st

\* ParseLine as it would be if a blank line pushed the pending record without
\* starting a new accumulator
ParseLineBlankKeepsPending(line, st) ==
    IF StartsWith(line, pfxWorktree) THEN
        [cw  |-> SetField(EmptyObj, "path", Substring(line, Len(pfxWorktree))),
         out |-> IF HasPath(st.cw) THEN Append(st.out, st.cw) ELSE st.out]
    ELSE IF StartsWith(line, pfxHEAD) THEN
        [st EXCEPT !.cw = SetField(st.cw, "head", Substring(line, Len(pfxHEAD)))]
    ELSE IF StartsWith(line, pfxBranch) THEN
        [st EXCEPT !.cw = SetField(st.cw, "branch", Substring(line, Len(pfxBranch)))]
    ELSE IF line = kwBare THEN
        [st EXCEPT !.cw = SetField(st.cw, "bare", TRUE)]
    ELSE IF StartsWith(line, kwDetached) THEN
        [st EXCEPT !.cw = SetField(st.cw, "detached", TRUE)]
    ELSE IF line = kwPrunable THEN
        [st EXCEPT !.cw = SetField(st.cw, "prunable", TRUE)]
    ELSE IF line = <<>> THEN
        IF HasPath(st.cw)
        THEN [st EXCEPT !.out = Append(st.out, st.cw)]
        ELSE st
    ELSE st

\* one iteration of the loop over lines: st = [cw |-> currentWorktree, out |-> worktrees]
ParseLine(line, st) ==
    IF StartsWith(line, pfxWorktree) THEN
        [cw  |-> SetField(EmptyObj, "path", Substring(line, Len(pfxWorktree))),
         out |-> IF HasPath(st.cw) THEN Append(st.out, st.cw) ELSE st.out]
    ELSE IF StartsWith(line, pfxHEAD) THEN
        [st EXCEPT !.cw = SetField(st.cw, "head", Substring(line, Len(pfxHEAD)))]
    ELSE IF StartsWith(line, pfxBranch) THEN
        [st EXCEPT !.cw = SetField(st.cw, "branch", Substring(line, Len(pfxBranch)))]
    ELSE IF line = kwBare THEN
        [st EXCEPT !.cw = SetField(st.cw, "bare", TRUE)]
    ELSE IF StartsWith(line, kwDetached) THEN
        [st EXCEPT !.cw = SetField(st.cw, "detached", TRUE)]
    ELSE IF line = kwPrunable THEN
        [st EXCEPT !.cw = SetField(st.cw, "prunable", TRUE)]
    ELSE IF line = <<>> THEN
        IF HasPath(st.cw)
        THEN [cw |-> EmptyObj, out |-> Append(st.out, st.cw)]
        ELSE st
    ELSE st

RECURSIVE ParseLines(_, _)
ParseLines(lines, st) ==
    IF lines = <<>> THEN st ELSE ParseLines(Tail(lines), ParseLine(Head(lines), st))

\* FlushLast as it would be without the push after the loop
FlushLastForgotten(st) == st.out

\* the push after the loop
FlushLast(st) == IF HasPath(st.cw) THEN Append(st.out, st.cw) ELSE st.out

getWorktrees(result) ==
    IF Falsy(result) THEN <<>>
    ELSE FlushLast(ParseLines(Split(Trim(result.str), NL),
                              [cw |-> EmptyObj, out |-> <<>>]))

----------------------------------------------------------------------------
(* The output of `git worktree list --porcelain`, as the parser may meet it *)

pathA     == <<"/", "a">>
pathB     == <<"/", "b">>
pathBsp   == <<"/", "b", " ">>
refsHeads == <<"r", "e", "f", "s", "/", "h", "e", "a", "d", "s", "/">>
nameX     == <<"x">>
sha1      == <<"1">>
kwLocked  == <<"l", "o", "c", "k", "e", "d">>
txtReason == <<" ", "g", "o", "n", "e">>

PorcelainLines ==
    { pfxWorktree \o pathA,         \* worktree /a
      pfxWorktree \o pathB,         \* worktree /b
      pfxWorktree \o pathBsp,       \* worktree /b<space>
      pfxWorktree,                  \* a worktree line with an empty path
      pfxHEAD \o sha1,              \* HEAD 1
      pfxBranch \o refsHeads \o nameX,   \* branch refs/heads/x
      kwBare,
      kwDetached,
      kwPrunable,
      kwPrunable \o txtReason,      \* prunable gone
      kwLocked,                     \* a field the parser does not know
      <<>> }                        \* the blank line that ends a stanza

\* how the captured text may end after its last line
TextTails == { <<>>, <<NL>> }

WtInit ==
    /\ wtLines = <<>>
    /\ wtCalled = FALSE
    /\ wtText = <<>>
    /\ wtFailed = FALSE
    /\ worktrees = <<>>
    \* removeWorktree is not running
    /\ rmWorktrees = <<>>
    /\ rmBranch = <<>>
    /\ rmCalled = FALSE
    /\ rmFound = [index |-> 0]
    /\ vName = <<>>
    /\ vCalled = FALSE
    /\ vVerdict = NoVerdict
    /\ brLines = <<>>
    /\ brCalled = FALSE
    /\ branches = <<>>
    /\ mnWorktrees = <<>>
    /\ mnBranches = <<>>
    /\ mnCalled = FALSE
    /\ mnMenu = [shown |-> FALSE]
    /\ cliCmd = "none"
    /\ cliArgs = NoArgs
    /\ cliEnv = NoEnv
    /\ cliPc = "idle"
    /\ cliExit = "running"
    /\ cliLog = <<>>
    /\ cliCtx = NoCtx
    /\ cliMenu = NoMenu

\* git prints one more line of the listing
GitPrintLine(l) ==
    /\ ~wtCalled
    /\ Len(wtLines) < MaxLines
    /\ wtLines' = Append(wtLines, l)
    /\ UNCHANGED <<wtCalled, wtText, wtFailed, worktrees>>
    /\ UNCHANGED <<rmVars, vVars, brVars, mnVars, cliVars>>

\* the tool calls getWorktrees: the listing command prints the lines and
\* exits, with status 0 or not
CallGetWorktrees(tail, fails) ==
    /\ ~wtCalled
    /\ wtCalled' = TRUE
    /\ wtFailed' = fails
    /\ LET stdout == Join(wtLines, NL) \o tail
           result == executeCommand([fails |-> fails, stdout |-> stdout])
       IN  /\ wtText' = IF result.isNull THEN <<>> ELSE result.str
           /\ worktrees' = getWorktrees(result)
    /\ UNCHANGED wtLines
    /\ UNCHANGED <<rmVars, vVars, brVars, mnVars, cliVars>>

WtNext ==
    \/ \E l \in PorcelainLines : GitPrintLine(l)
    \/ \E tail \in TextTails, fails \in BOOLEAN : CallGetWorktrees(tail, fails)

SpecWorktrees == WtInit /\ [][WtNext]_vars

----------------------------------------------------------------------------
(* removeWorktree: the lookup of the worktree of a branch *)

SLASH == "/"

\* s.replace(pat, rep) with a string pattern: the first occurrence only
RECURSIVE ReplaceFirst(_, _, _)
ReplaceFirst(s, pat, rep) ==
    IF StartsWith(s, pat) THEN rep \o Substring(s, Len(pat))
    ELSE IF s = <<>> THEN s
    ELSE <<Head(s)>> \o ReplaceFirst(Tail(s), pat, rep)

RECURSIVE StripTrailingSlashes(_)
StripTrailingSlashes(p) ==
    IF Len(p) > 1 /\ p[Len(p)] = SLASH
    THEN StripTrailingSlashes(SubSeq(p, 1, Len(p) - 1))
    ELSE p

\* the text after the last "/" of q
RECURSIVE AfterLastSlash(_, _)
AfterLastSlash(q, acc) ==
    IF q = <<>> THEN acc
    ELSE IF Head(q) = SLASH THEN AfterLastSlash(Tail(q), <<>>)
    ELSE AfterLastSlash(Tail(q), Append(acc, Head(q)))

\* path.basename(p) (posix)
Basename(p) == AfterLastSlash(StripTrailingSlashes(p), <<>>)

\* wt.branch ? wt.branch.replace('refs/heads/', '') : null
WtBranchName(wt) ==
    IF "branch" \in DOMAIN wt /\ wt["branch"] # <<>>
    THEN Str(ReplaceFirst(wt["branch"], refsHeads, <<>>))
    ELSE Null

\* the callback of worktrees.find
WorktreeMatches(wt, repoName, branchName) ==
    \/ WtBranchName(wt) = Str(branchName)
    \/ Basename(wt["path"]) = repoName \o <<"-">> \o branchName

\* Array.prototype.find as it would be if a match by branch were looked for
\* in the whole array before any match by name
FindPreferringRef(wts, repoName, branchName, i) ==
    LET byRef  == {j \in 1..Len(wts) : WtBranchName(wts[j]) = Str(branchName)}
        byName == {j \in 1..Len(wts) : WorktreeMatches(wts[j], repoName, branchName)}
    IN  IF byRef # {} THEN CHOOSE j \in byRef : \A k \in byRef : j <= k
        ELSE IF byName # {} THEN CHOOSE j \in byName : \A k \in byName : j <= k
        ELSE 0

\* Array.prototype.find as it would be if it skipped the first element
FindSkippingFirst(wts, repoName, branchName, i) ==
    LET hits == {j \in 2..Len(wts) : WorktreeMatches(wts[j], repoName, branchName)}
    IN  IF hits = {} THEN 0 ELSE CHOOSE j \in hits : \A k \in hits : j <= k

\* Array.prototype.find from index i on: the index of the first element the
\* callback accepts, 0 for undefined
RECURSIVE FindFrom(_, _, _, _)
FindFrom(wts, repoName, branchName, i) ==
    IF i > Len(wts) THEN 0
    ELSE IF WorktreeMatches(wts[i], repoName, branchName) THEN i
    ELSE FindFrom(wts, repoName, branchName, i + 1)

\* const worktree = worktrees.find(...)
FindWorktree(wts, gitRoot, branchName) ==
    LET idx == FindFrom(wts, Basename(gitRoot), branchName, 1)
    IN  IF idx = 0 THEN [index |-> 0] ELSE [index |-> idx, wt |-> wts[idx]]

----------------------------------------------------------------------------
(* The repository the removal command runs in *)

gitRootDir == <<"/", "p", "/", "r">>          \* git rev-parse --show-toplevel: /p/r
nameY      == <<"y">>

\* worktree paths git may list: the root, two made by this tool, one made by hand
RmPaths ==
    { gitRootDir,
      <<"/", "p", "/", "r", "-", "x">>,
      <<"/", "p", "/", "r", "-", "y">>,
      <<"/", "q", "/", "z">> }

RmBranchNames == { nameX, nameY }

\* the records getWorktrees can return for them: on a branch, or detached
RmRecords ==
    { [path |-> p, head |-> sha1, branch |-> refsHeads \o b] : p \in RmPaths, b \in RmBranchNames }
    \cup { [path |-> p, head |-> sha1, detached |-> TRUE] : p \in RmPaths }

RECURSIVE SeqsUpTo(_, _)
SeqsUpTo(S, n) ==
    IF n = 0 THEN {<<>>}
    ELSE LET shorter == SeqsUpTo(S, n - 1)
         IN  shorter \cup {Append(q, x) : q \in shorter, x \in S}

\* git lists every worktree once: no two records of a listing share a path
DistinctPaths(wts) ==
    \A i, j \in 1..Len(wts) : wts[i]["path"] = wts[j]["path"] => i = j

RmInit ==
    /\ rmWorktrees \in {wts \in SeqsUpTo(RmRecords, MaxWorktrees) : DistinctPaths(wts)}
    /\ rmBranch \in RmBranchNames
    /\ rmCalled = FALSE
    /\ rmFound = [index |-> 0]
    /\ vName = <<>>
    /\ vCalled = FALSE
    /\ vVerdict = NoVerdict
    /\ brLines = <<>>
    /\ brCalled = FALSE
    /\ branches = <<>>
    /\ mnWorktrees = <<>>
    /\ mnBranches = <<>>
    /\ mnCalled = FALSE
    /\ mnMenu = [shown |-> FALSE]
    \* no listing is being parsed
    /\ wtLines = <<>>
    /\ wtCalled = FALSE
    /\ wtText = <<>>
    /\ wtFailed = FALSE
    /\ worktrees = <<>>
    /\ cliCmd = "none"
    /\ cliArgs = NoArgs
    /\ cliEnv = NoEnv
    /\ cliPc = "idle"
    /\ cliExit = "running"
    /\ cliLog = <<>>
    /\ cliCtx = NoCtx
    /\ cliMenu = NoMenu

\* removeWorktree(branchName) up to the lookup of the worktree
RemoveWorktreeFind ==
    /\ ~rmCalled
    /\ rmCalled' = TRUE
    /\ rmFound' = FindWorktree(rmWorktrees, gitRootDir, rmBranch)
    /\ UNCHANGED <<rmWorktrees, rmBranch>>
    /\ UNCHANGED <<wtVars, vVars, brVars, mnVars, cliVars>>

RmNext == RemoveWorktreeFind

SpecFind == RmInit /\ [][RmNext]_vars

----------------------------------------------------------------------------
(* validateBranchName *)

\* the character class of /[\s~^:?*[\\]/
InvalidChar(c) == IsSpace(c) \/ c \in {"~", "^", ":", "?", "*", "[", "\\"}

dotLock  == <<".", "l", "o", "c", "k">>
dotDot   == <<".", ".">>
atBrace  == <<"@", "{">>

Accepted == [ok |-> TRUE]

Rejected(reason) == [ok |-> FALSE, reason |-> reason]

\* validateBranchName as it would be if the sequences were tested before the
\* start and the end of the name
validateBranchNameSequencesFirst(name) ==
    IF \E i \in 1..Len(name) : InvalidChar(name[i])
    THEN Rejected("Branch name contains invalid characters")
    ELSE IF \/ Includes(name, dotDot)
            \/ Includes(name, atBrace)
            \/ Includes(name, <<"\\">>)
    THEN Rejected("Branch name contains invalid sequences")
    ELSE IF \/ StartsWith(name, <<"-">>)
            \/ StartsWith(name, <<"+">>)
            \/ EndsWith(name, <<".">>)
            \/ EndsWith(name, dotLock)
    THEN Rejected("Invalid branch name format")
    ELSE Accepted

\* returns true, or the reason the name is refused
validateBranchName(name) ==
    IF \E i \in 1..Len(name) : InvalidChar(name[i])
    THEN Rejected("Branch name contains invalid characters")
    ELSE IF \/ StartsWith(name, <<"-">>)
            \/ StartsWith(name, <<"+">>)
            \/ EndsWith(name, <<".">>)
            \/ EndsWith(name, dotLock)
    THEN Rejected("Invalid branch name format")
    ELSE IF \/ Includes(name, dotDot)
            \/ Includes(name, atBrace)
            \/ Includes(name, <<"\\">>)
    THEN Rejected("Branch name contains invalid sequences")
    ELSE Accepted

\* the pieces candidate names are put together from
NamePieces ==
    { <<"a">>, <<"/">>, <<".">>, <<"l", "o", "c", "k">>, <<"-">>, <<"+">>,
      <<"@">>, <<"{">>, <<" ">>, <<"\t">>, <<"~">>, <<"^">>, <<":">>, <<"?">>,
      <<"*">>, <<"[">>, <<"\\">> }

RECURSIVE Concat(_)
Concat(pieces) == IF pieces = <<>> THEN <<>> ELSE Head(pieces) \o Concat(Tail(pieces))

CandidateNames == {Concat(ps) : ps \in SeqsUpTo(NamePieces, MaxPieces)}

VInit ==
    /\ vName \in CandidateNames
    /\ vCalled = FALSE
    /\ vVerdict = NoVerdict
    /\ brLines = <<>>
    /\ brCalled = FALSE
    /\ branches = <<>>
    /\ mnWorktrees = <<>>
    /\ mnBranches = <<>>
    /\ mnCalled = FALSE
    /\ mnMenu = [shown |-> FALSE]
    /\ wtLines = <<>>
    /\ wtCalled = FALSE
    /\ wtText = <<>>
    /\ wtFailed = FALSE
    /\ worktrees = <<>>
    /\ rmWorktrees = <<>>
    /\ rmBranch = <<>>
    /\ rmCalled = FALSE
    /\ rmFound = [index |-> 0]
    /\ brLines = <<>>
    /\ brCalled = FALSE
    /\ branches = <<>>
    /\ mnWorktrees = <<>>
    /\ mnBranches = <<>>
    /\ mnCalled = FALSE
    /\ mnMenu = [shown |-> FALSE]
    /\ cliCmd = "none"
    /\ cliArgs = NoArgs
    /\ cliEnv = NoEnv
    /\ cliPc = "idle"
    /\ cliExit = "running"
    /\ cliLog = <<>>
    /\ cliCtx = NoCtx
    /\ cliMenu = NoMenu

\* the name is validated
CallValidateBranchName ==
    /\ ~vCalled
    /\ vCalled' = TRUE
    /\ vVerdict' = validateBranchName(vName)
    /\ UNCHANGED vName
    /\ UNCHANGED <<wtVars, rmVars, brVars, mnVars, cliVars>>

VNext == CallValidateBranchName

SpecValidate == VInit /\ [][VNext]_vars

----------------------------------------------------------------------------
(* getExistingBranches: the branch enumerator *)

remotesOrigin == <<"r", "e", "m", "o", "t", "e", "s", "/", "o", "r", "i", "g", "i", "n", "/">>

\* s.replace(/^\*?\s+/, ''): an optional "*" and the white space after it
StripStarMarker(s) ==
    IF Len(s) >= 2 /\ s[1] = "*" /\ IsSpace(s[2]) THEN TrimStart(Tail(s))
    ELSE IF s # <<>> /\ IsSpace(s[1]) THEN TrimStart(s)
    ELSE s

\* s.replace(/^[+-]\s+/, ''): a "+" or "-" and the white space after it
StripPlusMinusMarker(s) ==
    IF Len(s) >= 2 /\ s[1] \in {"+", "-"} /\ IsSpace(s[2]) THEN TrimStart(Tail(s))
    ELSE s

\* StripRemotePrefix as it would be if the prefix were never removed
KeepRemotePrefix(s) == s

\* s.replace(/^remotes\/origin\//, '')
StripRemotePrefix(s) ==
    IF StartsWith(s, remotesOrigin) THEN Substring(s, Len(remotesOrigin)) ELSE s

\* the callback of map: a printed line to a branch name
CleanBranch(branch) ==
    StripRemotePrefix(StripPlusMinusMarker(Trim(StripStarMarker(branch))))

\* self.indexOf(x): the first index of x, counted from 1
IndexOf(self, x) == Min({i \in 1..Len(self) : self[i] = x})

\* the elements lst[i] with i in keep, in order
RECURSIVE Pick(_, _, _)
Pick(lst, keep, i) ==
    IF i > Len(lst) THEN <<>>
    ELSE (IF i \in keep THEN <<lst[i]>> ELSE <<>>) \o Pick(lst, keep, i + 1)

\* RemoveDuplicates as it would be with the test self.indexOf(branch) !== index
KeepDuplicatesOnly(self) ==
    Pick(self, {i \in 1..Len(self) : IndexOf(self, self[i]) # i}, 1)

\* RemoveDuplicates as it would be if the last occurrence were kept
KeepLastOccurrence(self) ==
    Pick(self, {i \in 1..Len(self) : \A j \in (i + 1)..Len(self) : self[j] # self[i]}, 1)

\* .filter((branch, index, self) => self.indexOf(branch) === index)
RemoveDuplicates(self) ==
    Pick(self, {i \in 1..Len(self) : IndexOf(self, self[i]) = i}, 1)

\* .filter((branch) => branch && branch !== '')
RemoveEmpty(lst) ==
    Pick(lst, {i \in 1..Len(lst) : lst[i] # <<>>}, 1)

\* .map(callback)
MapClean(lst) == [i \in 1..Len(lst) |-> CleanBranch(lst[i])]

getExistingBranches(result) ==
    IF Falsy(result) THEN <<>>
    ELSE RemoveDuplicates(RemoveEmpty(MapClean(Split(result.str, NL))))

----------------------------------------------------------------------------
(* The output of `git branch -a`, as the enumerator may meet it *)

nameMain == <<"m", "a", "i", "n">>
indent   == <<" ", " ">>

BranchListingLines ==
    { <<"*", " ">> \o nameMain,                         \* the current branch
      indent \o nameX,                                  \* a local branch
      indent \o remotesOrigin \o nameX,                 \* its remote-tracking branch
      indent \o remotesOrigin \o nameMain,
      <<"+", " ">> \o nameY,                            \* checked out in another worktree
      <<"-", " ">> \o nameY,
      indent \o nameY \o <<" ">>,                       \* white space after the name
      indent \o remotesOrigin \o remotesOrigin \o nameX, \* origin's branch remotes/origin/x
      <<>> }                                            \* an empty line

\* git ends every line it prints with a newline
BranchListingText(lines) == Concat([i \in 1..Len(lines) |-> lines[i] \o <<NL>>])

BrInit ==
    /\ brLines = <<>>
    /\ brCalled = FALSE
    /\ branches = <<>>
    /\ wtLines = <<>>
    /\ wtCalled = FALSE
    /\ wtText = <<>>
    /\ wtFailed = FALSE
    /\ worktrees = <<>>
    /\ rmWorktrees = <<>>
    /\ rmBranch = <<>>
    /\ rmCalled = FALSE
    /\ rmFound = [index |-> 0]
    /\ vName = <<>>
    /\ vCalled = FALSE
    /\ vVerdict = NoVerdict
    /\ mnWorktrees = <<>>
    /\ mnBranches = <<>>
    /\ mnCalled = FALSE
    /\ mnMenu = [shown |-> FALSE]
    /\ cliCmd = "none"
    /\ cliArgs = NoArgs
    /\ cliEnv = NoEnv
    /\ cliPc = "idle"
    /\ cliExit = "running"
    /\ cliLog = <<>>
    /\ cliCtx = NoCtx
    /\ cliMenu = NoMenu

\* git prints one more line of the branch listing
GitPrintBranchLine(l) ==
    /\ ~brCalled
    /\ Len(brLines) < MaxBranchLines
    /\ brLines' = Append(brLines, l)
    /\ UNCHANGED <<brCalled, branches>>
    /\ UNCHANGED <<wtVars, rmVars, vVars, mnVars, cliVars>>

\* the tool calls getExistingBranches on the listing printed so far
CallGetExistingBranches ==
    /\ ~brCalled
    /\ brCalled' = TRUE
    /\ branches' = getExistingBranches(
                       executeCommand([fails |-> FALSE, stdout |-> BranchListingText(brLines)]))
    /\ UNCHANGED brLines
    /\ UNCHANGED <<wtVars, rmVars, vVars, mnVars, cliVars>>

BrNext ==
    \/ \E l \in BranchListingLines : GitPrintBranchLine(l)
    \/ CallGetExistingBranches

SpecBranches == BrInit /\ [][BrNext]_vars

----------------------------------------------------------------------------
(* interactiveRemove: the menu of the removal command *)

nameMaster     == <<"m", "a", "s", "t", "e", "r">>
txtDetached    == <<"d", "e", "t", "a", "c", "h", "e", "d", " ", "H", "E", "A", "D">>
txtNoBranch    == <<"n", "o", " ", "b", "r", "a", "n", "c", "h">>

\* lst.includes(x)
ListIncludes(lst, x) == \E i \in 1..Len(lst) : lst[i] = x

\* worktrees.filter((wt) => wt.path !== currentPath)
RemovableWorktrees(wts, currentPath) ==
    Pick(wts, {i \in 1..Len(wts) : wts[i]["path"] # currentPath}, 1)

\* worktrees.map((wt) => wt.branch).filter(Boolean)
WorktreeBranches(wts) ==
    LET kept == Pick(wts, {i \in 1..Len(wts) :
                              "branch" \in DOMAIN wts[i] /\ wts[i]["branch"] # <<>>}, 1)
    IN  [i \in 1..Len(kept) |-> kept[i]["branch"]]

\* BranchesWithoutWorktrees as it would be without the test for main and master
BranchesWithoutWorktreesKeepingMain(wts, brs) ==
    Pick(brs, {i \in 1..Len(brs) :
                  ~ListIncludes(WorktreeBranches(wts), refsHeads \o brs[i])}, 1)

\* branches.filter((branch) => !worktreeBranches.includes(`refs/heads/${branch}`)
\*                              && branch !== 'main' && branch !== 'master')
BranchesWithoutWorktrees(wts, brs) ==
    Pick(brs, {i \in 1..Len(brs) :
                  /\ ~ListIncludes(WorktreeBranches(wts), refsHeads \o brs[i])
                  /\ brs[i] # nameMain
                  /\ brs[i] # nameMaster}, 1)

\* the value of the menu entry of a worktree
WorktreeEntryValue(wt) ==
    IF "branch" \in DOMAIN wt /\ wt["branch"] # <<>>
    THEN ReplaceFirst(wt["branch"], refsHeads, <<>>)
    ELSE IF "detached" \in DOMAIN wt /\ wt["detached"] THEN txtDetached
    ELSE txtNoBranch

\* the choices interactiveRemove puts before the user; without a removable
\* worktree it returns before building any
InteractiveRemoveMenu(wts, gitRoot, brs) ==
    LET removable == RemovableWorktrees(wts, gitRoot)
    IN  IF Len(removable) = 0 THEN [shown |-> FALSE]
        ELSE [shown           |-> TRUE,
              worktreeEntries |-> [i \in 1..Len(removable) |->
                                      [value |-> WorktreeEntryValue(removable[i]),
                                       path  |-> removable[i]["path"]]],
              branchEntries   |-> BranchesWithoutWorktrees(wts, brs)]

\* branch names getExistingBranches may return
MnBranchNames == { nameX, nameY, nameMain, nameMaster }

\* the records getWorktrees may return: on one of the branches, or detached
MnRecords ==
    { [path |-> p, head |-> sha1, branch |-> refsHeads \o b] : p \in RmPaths, b \in MnBranchNames }
    \cup { [path |-> p, head |-> sha1, detached |-> TRUE] : p \in RmPaths }

\* getExistingBranches returns no name twice
DistinctNames(brs) == \A i, j \in 1..Len(brs) : brs[i] = brs[j] => i = j

MnInit ==
    /\ mnWorktrees \in {wts \in SeqsUpTo(MnRecords, MaxWorktrees) : DistinctPaths(wts)}
    /\ mnBranches \in {brs \in SeqsUpTo(MnBranchNames, MaxBranches) : DistinctNames(brs)}
    /\ mnCalled = FALSE
    /\ mnMenu = [shown |-> FALSE]
    /\ wtLines = <<>>
    /\ wtCalled = FALSE
    /\ wtText = <<>>
    /\ wtFailed = FALSE
    /\ worktrees = <<>>
    /\ rmWorktrees = <<>>
    /\ rmBranch = <<>>
    /\ rmCalled = FALSE
    /\ rmFound = [index |-> 0]
    /\ vName = <<>>
    /\ vCalled = FALSE
    /\ vVerdict = NoVerdict
    /\ brLines = <<>>
    /\ brCalled = FALSE
    /\ branches = <<>>
    /\ cliCmd = "none"
    /\ cliArgs = NoArgs
    /\ cliEnv = NoEnv
    /\ cliPc = "idle"
    /\ cliExit = "running"
    /\ cliLog = <<>>
    /\ cliCtx = NoCtx
    /\ cliMenu = NoMenu

\* interactiveRemove up to the prompt that shows the menu
InteractiveRemoveBuildMenu ==
    /\ ~mnCalled
    /\ mnCalled' = TRUE
    /\ mnMenu' = InteractiveRemoveMenu(mnWorktrees, gitRootDir, mnBranches)
    /\ UNCHANGED <<mnWorktrees, mnBranches>>
    /\ UNCHANGED <<wtVars, rmVars, vVars, brVars, cliVars>>

MnNext == InteractiveRemoveBuildMenu

SpecMenu == MnInit /\ [][MnNext]_vars

----------------------------------------------------------------------------
(* One invocation of the command line tool: spawn, spawn remove, spawn merge *)

\* Every git command, prompt, answer, message, validation, test of the disk
\* and change of directory of the invocation is appended to cliLog.
Ev(ev, what, branch, path, ok) ==
    [ev |-> ev, what |-> what, branch |-> branch, path |-> path, ok |-> ok,
     status |-> IF ok THEN 0 ELSE 1, out |-> <<>>]

\* execSync of a git command that exited with `status` after printing `out`
GitRun(what, branch, status, out) ==
    [ev |-> "git", what |-> what, branch |-> branch, path |-> <<>>, ok |-> status = 0,
     status |-> status, out |-> out]

\* execSync / executeCommand of a git command, and whether it exited with 0
GitCmd(what, branch, path, ok) == Ev("git", what, branch, path, ok)

\* console.log / console.error
Say(what) == Ev("message", what, <<>>, <<>>, TRUE)

\* inquirer.prompt shows a question; the user answers it
Prompt(what) == Ev("prompt", what, <<>>, <<>>, TRUE)
Answer(what, yes) == Ev("answer", what, <<>>, <<>>, yes)

\* process.chdir
Chdir(path) == Ev("chdir", "process.chdir", <<>>, path, TRUE)

\* a call of validateBranchName and whether it returned true
Validated(name, ok) == Ev("validate", "validateBranchName", name, <<>>, ok)

\* fs.existsSync
ExistsSync(path, ok) == Ev("exists", "fs.existsSync", <<>>, path, ok)

\* execSync(editor, { stdio: 'inherit' }): an editor process is started
Launch(editor) ==
    [ev |-> "launch", what |-> "execSync(editor)", branch |-> <<>>, path |-> <<>>,
     ok |-> TRUE, status |-> 0, out |-> editor]

\* removeWorktree returns true or false to its caller
Returned(value) == Ev("return", "removeWorktree", <<>>, <<>>, value)

\* an exception nothing catches
Uncaught(what) == Ev("uncaught", what, <<>>, <<>>, FALSE)

\* where a handler stands when it returns to the event loop: at a prompt
AtPrompt(pc, log, ctx, menu) ==
    [pc |-> pc, exit |-> "running", log |-> log, ctx |-> ctx, menu |-> menu]

\* process.exit(code), or the end of the handler (exit status 0)
Exited(code, log) ==
    [pc |-> "exited", exit |-> code, log |-> log, ctx |-> NoCtx, menu |-> NoMenu]

txtTrue      == <<"t", "r", "u", "e">>
txtUndefined == <<"u", "n", "d", "e", "f", "i", "n", "e", "d">>

\* result && result.trim() === 'true'
isGitRepository(env) ==
    LET result == executeCommand([fails |-> ~env.inRepo, stdout |-> txtTrue \o <<NL>>])
    IN  ~Falsy(result) /\ Trim(result.str) = txtTrue

\* result ? result.trim() : null
getGitRootDirectory(env) ==
    LET result == executeCommand([fails |-> ~env.inRepo, stdout |-> env.gitRoot \o <<NL>>])
    IN  IF Falsy(result) THEN Null ELSE Str(Trim(result.str))

\* result ? result.trim() : null ; a detached HEAD prints an empty line
getCurrentBranch(env) ==
    LET result == executeCommand([fails |-> ~env.inRepo, stdout |-> env.currentBranch \o <<NL>>])
    IN  IF Falsy(result) THEN Null ELSE Str(Trim(result.str))

\* getWorktrees() and getExistingBranches() in this environment: outside a
\* repository both commands fail and both functions return []
WorktreesOf(env) == IF env.inRepo THEN env.worktrees ELSE <<>>

ExistingBranchesOf(env) == IF env.inRepo THEN env.branches ELSE <<>>

\* `${value}` for a string or undefined
TemplateText(v) == IF v.isNull THEN txtUndefined ELSE v.str

\* the text before the last "/" of q
RECURSIVE BeforeLastSlash(_)
BeforeLastSlash(q) ==
    IF q = <<>> THEN q
    ELSE IF q[Len(q)] = SLASH THEN SubSeq(q, 1, Len(q) - 1)
    ELSE BeforeLastSlash(SubSeq(q, 1, Len(q) - 1))

\* path.dirname(p) (posix), for an absolute path
Dirname(p) ==
    LET d == BeforeLastSlash(StripTrailingSlashes(p))
    IN  IF d = <<>> THEN <<SLASH>> ELSE d

\* path.join(dir, name) for a name without "." and ".." segments
PathJoin(dir, name) == IF dir = <<SLASH>> THEN dir \o name ELSE dir \o <<SLASH>> \o name

\* path.join(parentDir, `${repoName}-${branchName}`)
WorktreePathFor(gitRoot, branch) ==
    PathJoin(Dirname(gitRoot), Basename(gitRoot) \o <<"-">> \o branch)

----------------------------------------------------------------------------
(* spawn.js: the options of the program and the launch of the editor *)

txtClaude == <<"c", "l", "a", "u", "d", "e">>
txtCode   == <<"c", "o", "d", "e">>

\* options.noEditor.  The program declares `-e, --editor <editor>` and
\* `-n, --no-editor`: commander reads an option whose long name starts with
\* `no-` as the negation of the option `editor` and stores it as
\* options.editor = false, so the options object never has a property
\* noEditor and the expression is undefined whatever the command line.
OptionsNoEditor(options) == FALSE

\* options.editor || 'claude': the name given after --editor; 'claude' when
\* options.editor is undefined (no option) or false (--no-editor)
EditorOrClaude(options) ==
    IF options.noEditor \/ Falsy(options.editor) THEN txtClaude ELSE options.editor.str

\* if (!options.noEditor) { ... execSync(editor) ... }; a failed launch only
\* prints a warning
LaunchEditor(log, options) ==
    IF ~OptionsNoEditor(options) THEN Append(log, Launch(EditorOrClaude(options))) ELSE log

----------------------------------------------------------------------------
(* spawn.js: createWorktree and createWorktreeForExistingBranch *)

\* from process.chdir(parentDir) to the end of the function; kind is "new"
\* for createWorktree (git worktree add -b) and "existing" for
\* createWorktreeForExistingBranch.
CreateTail(log, options, kind, gitRoot, branch, path, addOk) ==
    LET add  == IF kind = "new" THEN "worktree add -b" ELSE "worktree add"
        log1 == log \o <<Chdir(Dirname(gitRoot)), GitCmd(add, branch, path, addOk)>>
    IN  IF addOk
        THEN Exited("exit0", LaunchEditor(log1 \o <<Say("Worktree created successfully"),
                                                   Chdir(path)>>, options))
        ELSE Exited("exit1", Append(log1, Say("Error creating worktree")))

\* CreateStart as it would be without the test for an existing worktree
CreateStartNoExistsTest(log, env, options, kind, branchV, addOk) ==
    LET log1 == Append(log, GitCmd("rev-parse --is-inside-work-tree", <<>>, <<>>, env.inRepo))
    IN  IF ~isGitRepository(env)
        THEN Exited("exit1", Append(log1, Say("Error: Not in a git repository")))
        ELSE LET gitRoot == getGitRootDirectory(env)
                 branch  == TemplateText(branchV)
                 path    == WorktreePathFor(gitRoot.str, branch)
                 log2    == log1 \o <<GitCmd("rev-parse --show-toplevel", <<>>, <<>>, env.inRepo),
                                      ExistsSync(path, path \in env.onDisk)>>
             IN  CreateTail(log2, options, kind, gitRoot.str, branch, path, addOk)

\* createWorktree / createWorktreeForExistingBranch up to the overwrite prompt,
\* or to their end when the worktree path is free
CreateStart(log, env, options, kind, branchV, addOk) ==
    LET log1 == Append(log, GitCmd("rev-parse --is-inside-work-tree", <<>>, <<>>, env.inRepo))
    IN  IF ~isGitRepository(env)
        THEN Exited("exit1", Append(log1, Say("Error: Not in a git repository")))
        ELSE LET gitRoot == getGitRootDirectory(env)
                 log2    == Append(log1, GitCmd("rev-parse --show-toplevel", <<>>, <<>>, env.inRepo))
             IN  IF Falsy(gitRoot)
                 THEN Exited("exit1", Append(log2, Say("Error: Could not determine git root directory")))
                 ELSE LET branch == TemplateText(branchV)
                          path   == WorktreePathFor(gitRoot.str, branch)
                          exists == path \in env.onDisk
                          log3   == Append(log2, ExistsSync(path, exists))
                      IN  IF exists
                          THEN AtPrompt("overwrite",
                                        log3 \o <<Say("Warning: Worktree already exists"),
                                                  Prompt("overwrite")>>,
                                        [kind |-> kind, branch |-> branch, path |-> path,
                                         removed |-> FALSE, found |-> FALSE],
                                        NoMenu)
                          ELSE CreateTail(log3, options, kind, gitRoot.str, branch, path, addOk)

\* after the overwrite prompt
CreateAfterOverwrite(log, env, options, ctx, overwrite, removeOk, addOk) ==
    LET log1 == Append(log, Answer("overwrite", overwrite))
    IN  IF ~overwrite THEN Exited("exit1", log1)
        ELSE LET log2 == Append(log1, GitCmd("worktree remove --force", <<>>, ctx.path, removeOk))
             IN  IF ~removeOk
                 THEN Exited("exit1", Append(log2, Say("Failed to remove existing worktree")))
                 ELSE CreateTail(log2, options, ctx.kind, getGitRootDirectory(env).str,
                                 ctx.branch, ctx.path, addOk)

----------------------------------------------------------------------------
(* spawn.js: switchToWorktree, interactiveMode, listWorktrees, the action *)

\* worktrees.find((wt) => wt.path === worktreePath), 0 for undefined
FindByPath(wts, path) ==
    LET hits == {i \in 1..Len(wts) : wts[i]["path"] = path}
    IN  IF hits = {} THEN 0 ELSE Min(hits)

\* switchToWorktree from the registration removal to the end: the old
\* registration is removed (or pruned when that fails), the worktree is added
\* again, then the directory is entered and `claude` launched
SwitchRecreate(log, env, path, branch, removeOk, pruneOk, addOk) ==
    LET log1 == log \o <<GitCmd("rev-parse --show-toplevel", <<>>, <<>>, env.inRepo),
                         GitCmd("worktree remove --force", <<>>, path, removeOk)>>
        log2 == IF removeOk THEN log1
                ELSE Append(log1, GitCmd("worktree prune", <<>>, <<>>, pruneOk))
        log3 == log2 \o <<Chdir(Dirname(path)), GitCmd("worktree add", branch, path, addOk)>>
    IN  IF addOk
        THEN Exited("exit0", log3 \o <<Say("Worktree recreated successfully"), Chdir(path),
                                      Launch(txtClaude)>>)
        ELSE Exited("exit1", Append(log3, Say("Failed to recreate worktree")))

\* switchToWorktree(worktreePath, branchName), branchV being a name or null;
\* the function is not given the options and launches `claude` whenever it
\* has entered the directory
switchToWorktree(log, env, path, branchV, removeOk, pruneOk, addOk) ==
    LET exists == path \in env.onDisk
        log1   == Append(log, ExistsSync(path, exists))
    IN  IF exists THEN Exited("exit0", log1 \o <<Chdir(path), Launch(txtClaude)>>)
        ELSE IF ~Falsy(branchV)
        THEN SwitchRecreate(log1, env, path, branchV.str, removeOk, pruneOk, addOk)
        ELSE LET wts  == WorktreesOf(env)
                 idx  == FindByPath(wts, path)
                 log2 == Append(log1, GitCmd("worktree list --porcelain", <<>>, <<>>, env.inRepo))
             IN  IF idx # 0 /\ ~Falsy(WtBranchName(wts[idx]))
                 THEN SwitchRecreate(log2, env, path, WtBranchName(wts[idx]).str,
                                     removeOk, pruneOk, addOk)
                 ELSE Exited("exit1", Append(log2, Say("Cannot determine branch name for worktree")))

\* existingBranches.filter((branch) => !worktreeBranches.includes(`refs/heads/${branch}`))
SpawnBranchesWithoutWorktrees(wts, brs) ==
    Pick(brs, {i \in 1..Len(brs) :
                  ~ListIncludes(WorktreeBranches(wts), refsHeads \o brs[i])}, 1)

\* the value of the menu entry of a worktree: { type: 'switch', path, branch }
SwitchEntry(wt) ==
    [path   |-> wt["path"],
     branch |-> IF "branch" \in DOMAIN wt THEN Str(wt["branch"]) ELSE Null]

\* interactiveMode up to the prompt that shows the menu
interactiveMode(log, env) ==
    LET currentPath == getGitRootDirectory(env)
        wts      == WorktreesOf(env)
        existing == ExistingBranchesOf(env)
        others   == Pick(wts, {i \in 1..Len(wts) : Str(wts[i]["path"]) # currentPath}, 1)
        log1     == log \o <<GitCmd("branch --show-current", <<>>, <<>>, env.inRepo),
                             GitCmd("worktree list --porcelain", <<>>, <<>>, env.inRepo),
                             GitCmd("rev-parse --show-toplevel", <<>>, <<>>, env.inRepo),
                             GitCmd("branch -a", <<>>, <<>>, env.inRepo)>>
    IN  \* path.basename(currentPath) throws a TypeError for null; the rejected
        \* promise of the action handler ends the process with status 1
        IF currentPath.isNull
        THEN Exited("exit1", Append(log1, Uncaught("TypeError: path.basename(null)")))
        ELSE AtPrompt("menu", Append(log1, Prompt("selection")), NoCtx,
                      [worktreeEntries  |-> [i \in 1..Len(others) |-> SwitchEntry(others[i])],
                       branchEntries    |-> SpawnBranchesWithoutWorktrees(wts, existing),
                       existingBranches |-> existing])

\* listWorktrees
listWorktrees(log, env) ==
    LET log1 == Append(log, GitCmd("rev-parse --is-inside-work-tree", <<>>, <<>>, env.inRepo))
    IN  IF ~isGitRepository(env)
        THEN Exited("exit1", Append(log1, Say("Error: Not in a git repository")))
        ELSE Exited("exit0",
                    log1 \o <<GitCmd("worktree list --porcelain", <<>>, <<>>, env.inRepo),
                              GitCmd("rev-parse --show-toplevel", <<>>, <<>>, env.inRepo),
                              Say("Git Worktrees")>>)

\* SpawnAction as it would be if a rejected name were only reported
SpawnActionIgnoringVerdict(args, env, addOk) ==
    IF args.list THEN listWorktrees(<<>>, env)
    ELSE IF ~Falsy(args.branchName) THEN
        LET validation == validateBranchName(args.branchName.str)
            log1       == <<Validated(args.branchName.str, validation.ok)>>
            log2       == IF validation.ok THEN log1
                          ELSE Append(log1, Ev("error", validation.reason, <<>>, <<>>, FALSE))
        IN  CreateStart(log2, env, args, "new", args.branchName, addOk)
    ELSE interactiveMode(<<>>, env)

\* the action of the program up to its first prompt
SpawnAction(args, env, addOk) ==
    IF args.list THEN listWorktrees(<<>>, env)
    ELSE IF ~Falsy(args.branchName) THEN
        LET validation == validateBranchName(args.branchName.str)
            log1       == <<Validated(args.branchName.str, validation.ok)>>
        IN  IF ~validation.ok
            THEN Exited("exit1", Append(log1, Ev("error", validation.reason, <<>>, <<>>, FALSE)))
            ELSE CreateStart(log1, env, args, "new", args.branchName, addOk)
    ELSE interactiveMode(<<>>, env)

\* the create-new flow after the menu: which question inquirer asks
CreateNewQuestions(log, env, args, menu, addOk) ==
    IF ~args.fromExisting
    THEN AtPrompt("askName", Append(log, Prompt("branchName")), NoCtx, menu)
    ELSE IF Len(menu.existingBranches) > 0
    THEN AtPrompt("askExisting", Append(log, Prompt("branchName")), NoCtx, menu)
    ELSE CreateStart(log, env, args, "new", Null, addOk)

----------------------------------------------------------------------------
(* remove.js: removeWorktree, interactiveRemove, removeCommand *)

txtModified == <<" ", "M", " ", "f", NL>>

\* what `git -C <path> status --porcelain` may do: print nothing, print the
\* changed files, fail
StatusRuns ==
    { [fails |-> FALSE, stdout |-> <<>>],
      [fails |-> FALSE, stdout |-> txtModified],
      [fails |-> TRUE,  stdout |-> <<>>] }

\* the execSync of hasUncommittedChanges, as the log keeps it
StatusRun(path, run) ==
    [ev |-> "git", what |-> "status --porcelain", branch |-> <<>>, path |-> path,
     ok |-> ~run.fails, status |-> IF run.fails THEN 128 ELSE 0, out |-> run.stdout]

txtCommit == <<"1", " ", "w", "i", "p", NL>>

\* what `git log <main>..<branch> --oneline` may do: print nothing, print
\* the commits the branch has and the main branch lacks, fail
LogRuns ==
    { [fails |-> FALSE, stdout |-> <<>>],
      [fails |-> FALSE, stdout |-> txtCommit],
      [fails |-> TRUE,  stdout |-> <<>>] }

\* hasUnmergedCommits as it would be if a failed command meant no commits
hasUnmergedCommitsUnlessFailed(run) == IF run.fails THEN FALSE ELSE Len(Trim(run.stdout)) > 0

\* try { return result.trim().length > 0 } catch { return true }
hasUnmergedCommits(run) == IF run.fails THEN TRUE ELSE Len(Trim(run.stdout)) > 0

\* hasUncommittedChanges as it would be if it never reported a change
hasUncommittedChangesNever(run) == FALSE

\* try { return result.trim().length > 0 } catch { return false }
hasUncommittedChanges(run) == IF run.fails THEN FALSE ELSE Len(Trim(run.stdout)) > 0

\* git branch -D, the last step of removeWorktree
DeleteBranch(log, branch, deleteOk) ==
    LET log1 == log \o <<Say("Deleting branch"), GitCmd("branch -D", branch, <<>>, deleteOk)>>
    IN  IF deleteOk
        THEN Exited("exit0", log1 \o <<Say("Branch deleted successfully"), Returned(TRUE)>>)
        ELSE Exited("exit0", log1 \o <<Say("Failed to delete branch"), Returned(FALSE)>>)

\* removeWorktree from `const branches = getExistingBranches()` to its next
\* prompt or its end; logRun is the run of `git log <main>..<branch>`
BranchStep(log, env, ctx, logRun, deleteOk) ==
    LET log1 == Append(log, GitCmd("branch -a", <<>>, <<>>, env.inRepo))
    IN  IF ListIncludes(ExistingBranchesOf(env), ctx.branch)
        THEN LET log2 == log1 \o <<GitCmd("symbolic-ref refs/remotes/origin/HEAD", <<>>, <<>>, TRUE),
                                   GitRun("log main..branch", ctx.branch,
                                          IF logRun.fails THEN 128 ELSE 0, logRun.stdout)>>
             IN  IF hasUnmergedCommits(logRun)
                 THEN AtPrompt("confirmDelete",
                               log2 \o <<Say("Branch has unmerged commits"), Prompt("confirmDelete")>>,
                               ctx, NoMenu)
                 ELSE IF ctx.removed
                 THEN DeleteBranch(Append(log2, Say("Automatically deleting branch")),
                                   ctx.branch, deleteOk)
                 ELSE AtPrompt("askDeleteBranch", Append(log2, Prompt("removeBranch")), ctx, NoMenu)
        ELSE IF ~ctx.found
        THEN Exited("exit0", log1 \o <<Say("No worktree or branch found"), Returned(FALSE)>>)
        ELSE Exited("exit0", Append(log1, Returned(TRUE)))

\* RemoveStep as it would be if a failed removal were only reported
RemoveStepGoingOn(log, env, ctx, removeOk, logRun, deleteOk) ==
    LET log1 == log \o <<Say("Removing worktree"),
                         GitCmd("worktree remove --force", <<>>, ctx.path, removeOk)>>
    IN  IF removeOk
        THEN BranchStep(Append(log1, Say("Worktree removed successfully")), env,
                        [ctx EXCEPT !.removed = TRUE], logRun, deleteOk)
        ELSE BranchStep(Append(log1, Say("Failed to remove worktree")), env,
                        ctx, logRun, deleteOk)

\* git worktree remove --force, then the branch
RemoveStep(log, env, ctx, removeOk, logRun, deleteOk) ==
    LET log1 == log \o <<Say("Removing worktree"),
                         GitCmd("worktree remove --force", <<>>, ctx.path, removeOk)>>
    IN  IF removeOk
        THEN BranchStep(Append(log1, Say("Worktree removed successfully")), env,
                        [ctx EXCEPT !.removed = TRUE], logRun, deleteOk)
        ELSE Exited("exit0", log1 \o <<Say("Failed to remove worktree"), Returned(FALSE)>>)

\* RemoveWorktree as it would be without the test for the current worktree
RemoveWorktreeOfAnyPath(log, env, branch, status, removeOk, logRun, deleteOk) ==
    LET wts     == WorktreesOf(env)
        gitRoot == getGitRootDirectory(env)
        found   == FindWorktree(wts, gitRoot.str, branch)
        log1    == log \o <<GitCmd("worktree list --porcelain", <<>>, <<>>, env.inRepo),
                            GitCmd("rev-parse --show-toplevel", <<>>, <<>>, env.inRepo)>>
        ctx     == [kind |-> "remove", branch |-> branch,
                    path |-> IF found.index = 0 THEN <<>> ELSE found.wt["path"],
                    removed |-> FALSE, found |-> found.index # 0]
    IN  IF found.index = 0 THEN BranchStep(log1, env, ctx, logRun, deleteOk)
        ELSE LET exists == ctx.path \in env.onDisk
                 log2   == Append(log1, ExistsSync(ctx.path, exists))
             IN  IF ~exists THEN RemoveStep(log2, env, ctx, removeOk, logRun, deleteOk)
                 ELSE LET log3 == Append(log2, StatusRun(ctx.path, status))
                      IN  IF hasUncommittedChanges(status)
                          THEN AtPrompt("forceRemove",
                                        log3 \o <<Say("Worktree has uncommitted changes"),
                                                  GitCmd("status --short", <<>>, ctx.path, TRUE),
                                                  GitCmd("diff", <<>>, ctx.path, TRUE),
                                                  GitCmd("diff --cached", <<>>, ctx.path, TRUE),
                                                  Prompt("forceRemove")>>,
                                        ctx, NoMenu)
                          ELSE RemoveStep(log3, env, ctx, removeOk, logRun, deleteOk)

\* removeWorktree(branchName) up to its first prompt; status is the run of
\* `git status --porcelain` in a worktree that is on the disk
RemoveWorktree(log, env, branch, status, removeOk, logRun, deleteOk) ==
    LET wts     == WorktreesOf(env)
        gitRoot == getGitRootDirectory(env)
        found   == FindWorktree(wts, gitRoot.str, branch)
        log1    == log \o <<GitCmd("worktree list --porcelain", <<>>, <<>>, env.inRepo),
                            GitCmd("rev-parse --show-toplevel", <<>>, <<>>, env.inRepo)>>
        ctx     == [kind |-> "remove", branch |-> branch,
                    path |-> IF found.index = 0 THEN <<>> ELSE found.wt["path"],
                    removed |-> FALSE, found |-> found.index # 0]
    IN  IF found.index = 0 THEN BranchStep(log1, env, ctx, logRun, deleteOk)
        ELSE IF ctx.path = gitRoot.str
        THEN Exited("exit1", Append(log1, Say("Error: Cannot remove the current worktree")))
        ELSE LET exists == ctx.path \in env.onDisk
                 log2   == Append(log1, ExistsSync(ctx.path, exists))
             IN  IF ~exists THEN RemoveStep(log2, env, ctx, removeOk, logRun, deleteOk)
                 ELSE LET log3 == Append(log2, StatusRun(ctx.path, status))
                      IN  IF hasUncommittedChanges(status)
                          THEN AtPrompt("forceRemove",
                                        log3 \o <<Say("Worktree has uncommitted changes"),
                                                  GitCmd("status --short", <<>>, ctx.path, TRUE),
                                                  GitCmd("diff", <<>>, ctx.path, TRUE),
                                                  GitCmd("diff --cached", <<>>, ctx.path, TRUE),
                                                  Prompt("forceRemove")>>,
                                        ctx, NoMenu)
                          ELSE RemoveStep(log3, env, ctx, removeOk, logRun, deleteOk)

\* interactiveRemove up to the prompt that shows its menu
interactiveRemove(log, env) ==
    LET wts     == WorktreesOf(env)
        gitRoot == getGitRootDirectory(env)
        menu    == InteractiveRemoveMenu(wts, gitRoot.str, ExistingBranchesOf(env))
        log1    == log \o <<GitCmd("worktree list --porcelain", <<>>, <<>>, env.inRepo),
                            GitCmd("rev-parse --show-toplevel", <<>>, <<>>, env.inRepo)>>
    IN  IF ~menu.shown
        THEN Exited("exit0", Append(log1, Say("No worktrees available to remove")))
        ELSE AtPrompt("removeMenu",
                      log1 \o <<GitCmd("branch -a", <<>>, <<>>, env.inRepo), Prompt("selection")>>,
                      NoCtx,
                      [worktreeEntries  |-> menu.worktreeEntries,
                       branchEntries    |-> menu.branchEntries,
                       existingBranches |-> ExistingBranchesOf(env)])

\* removeCommand(branchName) up to its first prompt
removeCommand(args, env, status, removeOk, logRun, deleteOk) ==
    LET log1 == <<GitCmd("rev-parse --is-inside-work-tree", <<>>, <<>>, env.inRepo)>>
    IN  IF ~isGitRepository(env)
        THEN Exited("exit1", Append(log1, Say("Error: Not in a git repository")))
        ELSE IF ~Falsy(args.branchName)
        THEN RemoveWorktree(log1, env, args.branchName.str, status, removeOk, logRun, deleteOk)
        ELSE interactiveRemove(log1, env)

----------------------------------------------------------------------------
(* merge.js: performMerge, interactiveMerge, mergeCommand *)

kwCONFLICT == <<"C", "O", "N", "F", "L", "I", "C", "T">>

\* what `git merge` may print and exit with: a clean merge, a conflict
\* (status 1, CONFLICT in the output), and two refusals
MergeRuns ==
    { [status |-> 0,   out |-> <<"o", "k">>],
      [status |-> 1,   out |-> kwCONFLICT \o <<" ", "f">>],
      [status |-> 1,   out |-> <<"n", "o">>],
      [status |-> 128, out |-> <<"n", "o">>] }

\* the error execSync throws for a command that exits with a status other
\* than 0: the output is captured only when stdio is piped; with
\* stdio: 'inherit' it goes to the terminal and error.stdout is null
ExecSyncError(stdio, run) ==
    [status |-> run.status,
     stdout |-> IF stdio = "pipe" THEN Str(run.out) ELSE Null]

\* the catch block of performMerge
MergeCatch(log, error) ==
    IF error.status = 1 /\ ~Falsy(error.stdout) /\ Includes(error.stdout.str, kwCONFLICT)
    THEN Exited("exit0", log \o <<Say("Merge conflict detected"),
                                  Say("To resolve"),
                                  GitCmd("diff --name-only --diff-filter=U", <<>>, <<>>, TRUE)>>)
    ELSE Exited("exit0", Append(log, Say("Error during merge")))

TAB == "\t"

\* what `git rev-list --left-right --count <base>...<branch>` may do: print
\* `<behind>\t<ahead>`, or fail
RevListRuns ==
    { [fails |-> FALSE, stdout |-> <<"0", TAB, "0", NL>>],
      [fails |-> FALSE, stdout |-> <<"1", TAB, "0", NL>>],
      [fails |-> FALSE, stdout |-> <<"0", TAB, "1", NL>>],
      [fails |-> TRUE,  stdout |-> <<>>] }

\* Number(text) for the text of one digit
Number(text) == CHOOSE n \in 0..9 : ToString(n) = text[1]

\* getBranchAheadBehind as it would be if a failed count meant one commit ahead
getBranchAheadBehindOneOnFailure(run) ==
    IF run.fails THEN [ahead |-> 1, behind |-> 0]
    ELSE LET counts == Split(Trim(run.stdout), TAB)
         IN  [ahead |-> Number(counts[2]), behind |-> Number(counts[1])]

\* const [behind, ahead] = result.trim().split('\t').map(Number), and
\* { ahead: 0, behind: 0 } when the command fails
getBranchAheadBehind(run) ==
    IF run.fails THEN [ahead |-> 0, behind |-> 0]
    ELSE LET counts == Split(Trim(run.stdout), TAB)
         IN  [ahead |-> Number(counts[2]), behind |-> Number(counts[1])]

\* the previews a failing command of which ends performMerge in its catch
PreviewRuns == {"ok", "status fails", "log fails", "diff --stat fails"}

\* performMerge(branchName, currentBranch) up to the confirmation prompt;
\* status is the run of `git status --porcelain` (merge.js has its own
\* hasUncommittedChanges, the same but for the directory), revList the run of
\* the count of getBranchAheadBehind
performMerge(log, env, branch, status, revList, preview) ==
    LET log1 == log \o <<Say("Merging"), GitCmd("branch -a", <<>>, <<>>, env.inRepo)>>
        failed == [status |-> 1, out |-> <<>>]
    IN  IF ~ListIncludes(ExistingBranchesOf(env), branch)
        THEN Exited("exit0", Append(log1, Say("Error: Branch does not exist")))
        ELSE LET log2 == Append(log1, StatusRun(<<>>, status))
             IN  IF hasUncommittedChanges(status)
                 THEN LET log3 == log2 \o <<Say("Error: You have uncommitted changes"),
                                            GitCmd("status --short", <<>>, <<>>,
                                                   preview # "status fails")>>
                      IN  IF preview = "status fails"
                          THEN MergeCatch(log3, ExecSyncError("inherit", failed))
                          ELSE Exited("exit0", log3)
                 ELSE LET log4 == Append(log2, GitRun("rev-list --left-right --count", branch,
                                                      IF revList.fails THEN 128 ELSE 0,
                                                      revList.stdout))
                      IN  IF getBranchAheadBehind(revList).ahead = 0
                          THEN Exited("exit0", Append(log4, Say("Branch has no new commits to merge")))
                          ELSE LET log5 == Append(log4, GitCmd("log --oneline", branch, <<>>,
                                                               preview # "log fails"))
                                   log6 == Append(log5, GitCmd("diff --stat", branch, <<>>,
                                                               preview # "diff --stat fails"))
                               IN  IF preview = "log fails"
                                   THEN MergeCatch(log5, ExecSyncError("inherit", failed))
                                   ELSE IF preview = "diff --stat fails"
                                   THEN MergeCatch(log6, ExecSyncError("inherit", failed))
                                   ELSE AtPrompt("confirmMerge",
                                                 log6 \o <<GitCmd("diff --unified=3", branch, <<>>, TRUE),
                                                           Prompt("confirmMerge")>>,
                                                 [kind |-> "merge", branch |-> branch, path |-> <<>>,
                                                  removed |-> FALSE, found |-> FALSE],
                                                 NoMenu)

\* performMerge after the confirmation prompt, up to the prompt that offers to
\* remove the merged branch; run is what `git merge` does, summaryOk whether
\* the log command after the merge succeeds
PerformMergeConfirmed(log, ctx, confirmMerge, run, summaryOk) ==
    LET log1 == Append(log, Answer("confirmMerge", confirmMerge))
    IN  IF ~confirmMerge THEN Exited("exit0", Append(log1, Say("Merge cancelled")))
        ELSE LET log2 == log1 \o <<Say("Performing merge"),
                                   GitRun("merge", ctx.branch, run.status, run.out)>>
             IN  IF run.status # 0 THEN MergeCatch(log2, ExecSyncError("inherit", run))
                 ELSE LET log3 == log2 \o <<Say("Successfully merged"),
                                            GitCmd("log --oneline -1", <<>>, <<>>, summaryOk)>>
                      IN  IF ~summaryOk
                          THEN MergeCatch(log3, ExecSyncError("inherit", [status |-> 1, out |-> <<>>]))
                          ELSE AtPrompt("askRemoveMerged", Append(log3, Prompt("removeBranch")),
                                        ctx, NoMenu)

\* branches.filter((branch) => branch !== currentBranch)
OtherBranches(brs, current) == Pick(brs, {i \in 1..Len(brs) : brs[i] # current}, 1)

\* interactiveMerge up to the prompt that shows its menu
interactiveMerge(log, env) ==
    LET currentBranch == getCurrentBranch(env)
        log1 == Append(log, GitCmd("branch --show-current", <<>>, <<>>, env.inRepo))
    IN  IF Falsy(currentBranch)
        THEN Exited("exit0", Append(log1, Say("Error: Could not determine current branch")))
        ELSE LET brs  == OtherBranches(ExistingBranchesOf(env), currentBranch.str)
                 log2 == Append(log1, GitCmd("branch -a", <<>>, <<>>, env.inRepo))
             IN  IF Len(brs) = 0
                 THEN Exited("exit0", Append(log2, Say("No other branches available to merge")))
                 ELSE AtPrompt("mergeMenu",
                               log2 \o <<GitCmd("worktree list --porcelain", <<>>, <<>>, env.inRepo),
                                         GitCmd("rev-parse --show-toplevel", <<>>, <<>>, env.inRepo),
                                         GitCmd("rev-list --left-right --count", <<>>, <<>>, TRUE),
                                         Prompt("selectedBranch")>>,
                               NoCtx,
                               [worktreeEntries  |-> <<>>,
                                branchEntries    |-> brs,
                                existingBranches |-> ExistingBranchesOf(env)])

\* mergeCommand(branchName) up to its first prompt
mergeCommand(args, env, status, revList, preview) ==
    LET log1 == <<GitCmd("rev-parse --is-inside-work-tree", <<>>, <<>>, env.inRepo)>>
    IN  IF ~isGitRepository(env)
        THEN Exited("exit1", Append(log1, Say("Error: Not in a git repository")))
        ELSE LET currentBranch == getCurrentBranch(env)
                 log2 == Append(log1, GitCmd("branch --show-current", <<>>, <<>>, env.inRepo))
             IN  IF Falsy(currentBranch)
                 THEN Exited("exit1", Append(log2, Say("Error: Could not determine current branch")))
                 ELSE IF ~Falsy(args.branchName)
                 THEN performMerge(log2, env, args.branchName.str, status, revList, preview)
                 ELSE interactiveMerge(log2, env)

----------------------------------------------------------------------------
(* The invocations the model runs *)

pathRX        == <<"/", "p", "/", "r", "-", "x">>
nameTilde     == <<"x", "~">>
nameSlash     == <<"f", "/", "x">>
nameHeadArrow == <<"H", "E", "A", "D", " ", "-", ">", " ", "o", "r", "i", "g", "i", "n", "/",
                   "m", "a", "i", "n">>

\* most names the validator of the name prompt rejects before the user gives
\* a name it accepts
MaxRetypes == 1

\* the worktrees git lists: the repository itself and /p/r-x, each on a branch
\* or detached
CliRecords ==
    { [path |-> p, head |-> sha1, branch |-> refsHeads \o b] :
          p \in {gitRootDir, pathRX}, b \in {nameX, nameMain} }
    \cup { [path |-> p, head |-> sha1, detached |-> TRUE] : p \in {gitRootDir, pathRX} }

\* the names getExistingBranches returns; `HEAD -> origin/main` is what it
\* makes of the line `  remotes/origin/HEAD -> origin/main`
CliBranchNames == { nameX, nameMain, nameHeadArrow }

\* the names the user passes or types
CliTypedNames == { nameX, nameTilde, nameSlash }

\* What git reports hangs together: the worktree the tool runs in is listed,
\* no branch is checked out in two worktrees, `git branch -a` lists every
\* branch that is checked out, and the current branch is that of the current
\* worktree (none when its HEAD is detached).
ConsistentRepository(env) ==
    LET wts      == env.worktrees
        here     == FindByPath(wts, env.gitRoot)
        onBranch == {i \in 1..Len(wts) : "branch" \in DOMAIN wts[i]}
    IN  /\ here # 0
        /\ \A i, j \in onBranch : wts[i]["branch"] = wts[j]["branch"] => i = j
        /\ \A i \in onBranch : ListIncludes(env.branches, WtBranchName(wts[i]).str)
        /\ env.currentBranch = IF here \in onBranch THEN WtBranchName(wts[here]).str ELSE <<>>
        /\ env.gitRoot \in env.onDisk

CliInit ==
    /\ cliCmd \in {"spawn", "remove", "merge"}
    /\ cliArgs \in [branchName   : {Null} \cup {Str(n) : n \in CliTypedNames},
                    list         : BOOLEAN,
                    fromExisting : BOOLEAN,
                    editor       : {Null, Str(txtCode)},
                    noEditor     : BOOLEAN]
    \* the options belong to `spawn`; --editor and --no-editor are not given together
    /\ cliCmd # "spawn" => /\ ~cliArgs.list
                           /\ ~cliArgs.fromExisting
                           /\ cliArgs.editor = Null
                           /\ ~cliArgs.noEditor
    /\ cliArgs.noEditor => cliArgs.editor = Null
    /\ cliEnv \in [inRepo        : BOOLEAN,
                   gitRoot       : {gitRootDir},
                   currentBranch : {nameX, nameMain, <<>>},
                   worktrees     : {wts \in SeqsUpTo(CliRecords, MaxWorktrees) : DistinctPaths(wts)},
                   branches      : {brs \in SeqsUpTo(CliBranchNames, MaxBranches) : DistinctNames(brs)},
                   onDisk        : {{gitRootDir}, {gitRootDir, pathRX}}]
    /\ cliEnv.inRepo => ConsistentRepository(cliEnv)
    \* outside a repository git reports nothing
    /\ ~cliEnv.inRepo => /\ cliEnv.worktrees = <<>>
                         /\ cliEnv.branches = <<>>
                         /\ cliEnv.onDisk = {gitRootDir}
                         /\ cliEnv.currentBranch = <<>>
    /\ cliPc = "start"
    /\ cliExit = "running"
    /\ cliLog = <<>>
    /\ cliCtx = NoCtx
    /\ cliMenu = NoMenu
    /\ wtLines = <<>>
    /\ wtCalled = FALSE
    /\ wtText = <<>>
    /\ wtFailed = FALSE
    /\ worktrees = <<>>
    /\ rmWorktrees = <<>>
    /\ rmBranch = <<>>
    /\ rmCalled = FALSE
    /\ rmFound = [index |-> 0]
    /\ vName = <<>>
    /\ vCalled = FALSE
    /\ vVerdict = NoVerdict
    /\ brLines = <<>>
    /\ brCalled = FALSE
    /\ branches = <<>>
    /\ mnWorktrees = <<>>
    /\ mnBranches = <<>>
    /\ mnCalled = FALSE
    /\ mnMenu = [shown |-> FALSE]

\* the handler reaches its next prompt, or the process ends
Continue(out) ==
    /\ cliPc' = out.pc
    /\ cliExit' = out.exit
    /\ cliLog' = out.log
    /\ cliCtx' = out.ctx
    /\ cliMenu' = out.menu
    /\ UNCHANGED <<cliCmd, cliArgs, cliEnv>>
    /\ UNCHANGED <<wtVars, rmVars, vVars, brVars, mnVars>>

\* the user's choice in a list prompt
Chosen(what, branch, path) == Ev("answer", what, branch, path, TRUE)

\* spawn [branch-name]: the action up to its first prompt
SpawnStart(addOk) ==
    /\ cliPc = "start"
    /\ cliCmd = "spawn"
    /\ Continue(SpawnAction(cliArgs, cliEnv, addOk))

\* the menu of interactiveMode: Exit
SpawnSelectExit ==
    /\ cliPc = "menu"
    /\ Continue(Exited("exit0", cliLog \o <<Chosen("exit", <<>>, <<>>), Say("Goodbye")>>))

\* the menu of interactiveMode: an existing worktree
SpawnSelectSwitch(i, removeOk, pruneOk, addOk) ==
    /\ cliPc = "menu"
    /\ i \in 1..Len(cliMenu.worktreeEntries)
    /\ LET selection  == cliMenu.worktreeEntries[i]
           branchName == IF Falsy(selection.branch) THEN Null
                         ELSE Str(ReplaceFirst(selection.branch.str, refsHeads, <<>>))
       IN  Continue(switchToWorktree(Append(cliLog, Chosen("switch", <<>>, selection.path)),
                                     cliEnv, selection.path, branchName,
                                     removeOk, pruneOk, addOk))

\* the menu of interactiveMode: a branch without a worktree
SpawnSelectCreateExisting(j, addOk) ==
    /\ cliPc = "menu"
    /\ j \in 1..Len(cliMenu.branchEntries)
    /\ Continue(CreateStart(Append(cliLog, Chosen("create-existing", cliMenu.branchEntries[j], <<>>)),
                            cliEnv, cliArgs, "existing", Str(cliMenu.branchEntries[j]), addOk))

\* the menu of interactiveMode: Create new worktree
SpawnSelectCreate(addOk) ==
    /\ cliPc = "menu"
    /\ Continue(CreateNewQuestions(Append(cliLog, Chosen("create", <<>>, <<>>)),
                                   cliEnv, cliArgs, cliMenu, addOk))

\* the names the validator of the name prompt has rejected so far
Rejections(log) == Cardinality({i \in 1..Len(log) : log[i].ev = "validate" /\ ~log[i].ok})

\* the user types a name at the prompt whose validate is validateBranchName:
\* inquirer keeps asking until the validator returns true
SpawnTypeName(name, addOk) ==
    /\ cliPc = "askName"
    /\ LET verdict == validateBranchName(name)
           log1    == Append(cliLog, Validated(name, verdict.ok))
       IN  IF verdict.ok
           THEN Continue(CreateStart(Append(log1, Chosen("branchName", name, <<>>)),
                                     cliEnv, cliArgs, "new", Str(name), addOk))
           ELSE /\ Rejections(cliLog) < MaxRetypes
                /\ Continue(AtPrompt("askName", log1, cliCtx, cliMenu))

\* the user picks one of the existing branches (--from-existing)
SpawnPickExisting(j, addOk) ==
    /\ cliPc = "askExisting"
    /\ j \in 1..Len(cliMenu.existingBranches)
    /\ Continue(CreateStart(Append(cliLog, Chosen("branchName", cliMenu.existingBranches[j], <<>>)),
                            cliEnv, cliArgs, "new", Str(cliMenu.existingBranches[j]), addOk))

\* the user answers the overwrite prompt
AnswerOverwrite(overwrite, removeOk, addOk) ==
    /\ cliPc = "overwrite"
    /\ Continue(CreateAfterOverwrite(cliLog, cliEnv, cliArgs, cliCtx, overwrite, removeOk, addOk))

\* spawn remove [branch-name]: removeCommand up to its first prompt
RemoveStart(status, removeOk, logRun, deleteOk) ==
    /\ cliPc = "start"
    /\ cliCmd = "remove"
    /\ Continue(removeCommand(cliArgs, cliEnv, status, removeOk, logRun, deleteOk))

\* the menu of interactiveRemove: Cancel
RemoveSelectCancel ==
    /\ cliPc = "removeMenu"
    /\ Continue(Exited("exit0", cliLog \o <<Chosen("cancel", <<>>, <<>>), Say("Cancelled")>>))

\* the menu of interactiveRemove: the entry of a worktree
RemoveSelectWorktree(i, status, removeOk, logRun, deleteOk) ==
    /\ cliPc = "removeMenu"
    /\ i \in 1..Len(cliMenu.worktreeEntries)
    \* the value of the entry is its branch text; the log also keeps the path
    \* of the worktree the entry was shown for
    /\ LET selection == cliMenu.worktreeEntries[i].value
           shownFor  == cliMenu.worktreeEntries[i].path
       IN  Continue(RemoveWorktree(Append(cliLog, Chosen("worktree", selection, shownFor)),
                                   cliEnv, selection, status, removeOk, logRun, deleteOk))

\* the menu of interactiveRemove: the entry of a branch without a worktree
RemoveSelectBranch(j, status, removeOk, logRun, deleteOk) ==
    /\ cliPc = "removeMenu"
    /\ j \in 1..Len(cliMenu.branchEntries)
    /\ LET selection == cliMenu.branchEntries[j]
       IN  Continue(RemoveWorktree(Append(cliLog, Chosen("branch", selection, <<>>)),
                                   cliEnv, selection, status, removeOk, logRun, deleteOk))

\* the user answers `delete these uncommitted changes and remove the worktree anyway?`
AnswerForceRemove(forceRemove, removeOk, logRun, deleteOk) ==
    /\ cliPc = "forceRemove"
    /\ LET log1 == Append(cliLog, Answer("forceRemove", forceRemove))
       IN  IF ~forceRemove
           THEN Continue(Exited("exit0", log1 \o <<Say("Removal cancelled"), Returned(FALSE)>>))
           ELSE Continue(RemoveStep(log1, cliEnv, cliCtx, removeOk, logRun, deleteOk))

\* the user answers `still want to delete the branch?` (unmerged commits)
AnswerConfirmDelete(confirmDelete, deleteOk) ==
    /\ cliPc = "confirmDelete"
    /\ LET log1 == Append(cliLog, Answer("confirmDelete", confirmDelete))
       IN  IF confirmDelete
           THEN Continue(DeleteBranch(log1, cliCtx.branch, deleteOk))
           ELSE Continue(Exited("exit0", Append(log1, Returned(TRUE))))

\* the user answers `also want to delete the branch?`
AnswerDeleteBranch(removeBranch, deleteOk) ==
    /\ cliPc = "askDeleteBranch"
    /\ LET log1 == Append(cliLog, Answer("removeBranch", removeBranch))
       IN  IF removeBranch
           THEN Continue(DeleteBranch(log1, cliCtx.branch, deleteOk))
           ELSE Continue(Exited("exit0", Append(log1, Returned(TRUE))))

\* spawn merge [branch-name]: mergeCommand up to its first prompt
MergeStart(status, revList, preview) ==
    /\ cliPc = "start"
    /\ cliCmd = "merge"
    \* a branch is neither ahead of itself nor behind
    /\ cliArgs.branchName = Str(cliEnv.currentBranch) =>
           (revList.fails \/ Trim(revList.stdout) = <<"0", TAB, "0">>)
    /\ Continue(mergeCommand(cliArgs, cliEnv, status, revList, preview))

\* the menu of interactiveMerge: Cancel
MergeSelectCancel ==
    /\ cliPc = "mergeMenu"
    /\ Continue(Exited("exit0", cliLog \o <<Chosen("cancel", <<>>, <<>>), Say("Cancelled")>>))

\* the menu of interactiveMerge: a branch
MergeSelectBranch(j, status, revList, preview) ==
    /\ cliPc = "mergeMenu"
    /\ j \in 1..Len(cliMenu.branchEntries)
    /\ Continue(performMerge(Append(cliLog, Chosen("branch", cliMenu.branchEntries[j], <<>>)),
                             cliEnv, cliMenu.branchEntries[j], status, revList, preview))

\* the user answers `Do you want to merge?`; git merge runs
AnswerConfirmMerge(confirmMerge, run, summaryOk) ==
    /\ cliPc = "confirmMerge"
    /\ Continue(PerformMergeConfirmed(cliLog, cliCtx, confirmMerge, run, summaryOk))

\* the user answers `remove the branch and its worktree?` after a merge
AnswerRemoveMerged(removeBranch, status, removeOk, logRun, deleteOk) ==
    /\ cliPc = "askRemoveMerged"
    /\ LET log1 == Append(cliLog, Answer("removeMerged", removeBranch))
       IN  IF removeBranch
           THEN Continue(RemoveWorktree(Append(log1, Say("Removing branch and its worktree")),
                                        cliEnv, cliCtx.branch, status, removeOk, logRun, deleteOk))
           ELSE Continue(Exited("exit0", log1))

CliNext ==
    \/ \E addOk \in BOOLEAN : SpawnStart(addOk)
    \/ SpawnSelectExit
    \/ \E i \in 1..MaxWorktrees, removeOk, pruneOk, addOk \in BOOLEAN :
           SpawnSelectSwitch(i, removeOk, pruneOk, addOk)
    \/ \E j \in 1..MaxBranches, addOk \in BOOLEAN : SpawnSelectCreateExisting(j, addOk)
    \/ \E addOk \in BOOLEAN : SpawnSelectCreate(addOk)
    \/ \E name \in CliTypedNames, addOk \in BOOLEAN : SpawnTypeName(name, addOk)
    \/ \E j \in 1..MaxBranches, addOk \in BOOLEAN : SpawnPickExisting(j, addOk)
    \/ \E overwrite, removeOk, addOk \in BOOLEAN : AnswerOverwrite(overwrite, removeOk, addOk)
    \/ \E status \in StatusRuns, removeOk, deleteOk \in BOOLEAN, logRun \in LogRuns :
           RemoveStart(status, removeOk, logRun, deleteOk)
    \/ RemoveSelectCancel
    \/ \E i \in 1..MaxWorktrees, status \in StatusRuns, removeOk, deleteOk \in BOOLEAN,
          logRun \in LogRuns :
           RemoveSelectWorktree(i, status, removeOk, logRun, deleteOk)
    \/ \E j \in 1..MaxBranches, status \in StatusRuns, removeOk, deleteOk \in BOOLEAN,
          logRun \in LogRuns :
           RemoveSelectBranch(j, status, removeOk, logRun, deleteOk)
    \/ \E forceRemove, removeOk, deleteOk \in BOOLEAN, logRun \in LogRuns :
           AnswerForceRemove(forceRemove, removeOk, logRun, deleteOk)
    \/ \E confirmDelete, deleteOk \in BOOLEAN : AnswerConfirmDelete(confirmDelete, deleteOk)
    \/ \E removeBranch, deleteOk \in BOOLEAN : AnswerDeleteBranch(removeBranch, deleteOk)
    \/ \E status \in StatusRuns, revList \in RevListRuns, preview \in PreviewRuns :
           MergeStart(status, revList, preview)
    \/ MergeSelectCancel
    \/ \E j \in 1..MaxBranches, status \in StatusRuns, revList \in RevListRuns,
          preview \in PreviewRuns :
           MergeSelectBranch(j, status, revList, preview)
    \/ \E confirmMerge, summaryOk \in BOOLEAN, run \in MergeRuns :
           AnswerConfirmMerge(confirmMerge, run, summaryOk)
    \/ \E removeBranch, removeOk, deleteOk \in BOOLEAN, status \in StatusRuns,
          logRun \in LogRuns :
           AnswerRemoveMerged(removeBranch, status, removeOk, logRun, deleteOk)

SpecCli == CliInit /\ [][CliNext]_vars

----------------------------------------------------------------------------
(* Claims about getWorktrees *)

IsWorktreeLine(l) == StartsWith(l, pfxWorktree)

PathOfLine(l) == Substring(l, Len(pfxWorktree))

\* The printed text is made of stanzas, each starting with a `worktree <path>`
\* line whose path is not empty: every other non-blank line follows a
\* non-blank line, so it belongs to the stanza of a `worktree` line.
MadeOfStanzas ==
    \A i \in 1..Len(wtLines) :
        /\ IsWorktreeLine(wtLines[i]) => PathOfLine(wtLines[i]) # <<>>
        /\ (wtLines[i] # <<>> /\ ~IsWorktreeLine(wtLines[i]))
              => (i > 1 /\ wtLines[i - 1] # <<>>)

\* the `worktree` lines of the printed text, in order
StanzaHeads == SelectSeq(wtLines, IsWorktreeLine)

\* C1: for a text made of N stanzas getWorktrees returns N records, the k-th
\* being that of the k-th stanza, however each stanza ends.  (Paths are
\* compared up to the white space String.trim removes at the end of the text.)
C1_OneRecordPerStanza ==
    (wtCalled /\ ~wtFailed /\ MadeOfStanzas) =>
        /\ Len(worktrees) = Len(StanzaHeads)
        /\ \A k \in 1..Len(StanzaHeads) :
              Trim(worktrees[k]["path"]) = Trim(PathOfLine(StanzaHeads[k]))

\* a stanza ended by the next `worktree` line, then one ended by a blank line
C1_Witness ==
    /\ wtCalled
    /\ ~wtFailed
    /\ MadeOfStanzas
    /\ Len(wtLines) = 3
    /\ IsWorktreeLine(wtLines[1])
    /\ IsWorktreeLine(wtLines[2])
    /\ wtLines[3] = <<>>
    /\ Len(worktrees) = 2

\* the lines the loop of getWorktrees iterates over
LoopLines == Split(Trim(wtText), NL)

\* the lines that start a stanza: `worktree <non-empty path>`
StanzaStarts(ls) ==
    {i \in 1..Len(ls) : IsWorktreeLine(ls[i]) /\ PathOfLine(ls[i]) # <<>>}

\* the last line of the stanza that starts at line i: the line before the next
\* blank line or `worktree` line, or the last line of the text
StanzaEnd(ls, i) ==
    LET stops == {j \in (i + 1)..Len(ls) : ls[j] = <<>> \/ IsWorktreeLine(ls[j])}
    IN  IF stops = {} THEN Len(ls) ELSE Min(stops) - 1

\* the last line of lo..hi that begins with pfx, 0 when there is none
LastWithPrefix(ls, lo, hi, pfx) ==
    LET hits == {j \in lo..hi : StartsWith(ls[j], pfx)}
    IN  IF hits = {} THEN 0 ELSE Max(hits)

\* the record the stanza starting at line i describes
StanzaRecord(ls, i) ==
    LET e      == StanzaEnd(ls, i)
        h      == LastWithPrefix(ls, i + 1, e, pfxHEAD)
        b      == LastWithPrefix(ls, i + 1, e, pfxBranch)
        fields == {"path"}
                  \cup (IF h # 0 THEN {"head"} ELSE {})
                  \cup (IF b # 0 THEN {"branch"} ELSE {})
                  \cup (IF \E j \in (i + 1)..e : ls[j] = kwBare THEN {"bare"} ELSE {})
                  \cup (IF \E j \in (i + 1)..e : StartsWith(ls[j], kwDetached)
                        THEN {"detached"} ELSE {})
                  \cup (IF \E j \in (i + 1)..e : ls[j] = kwPrunable
                        THEN {"prunable"} ELSE {})
    IN  [k \in fields |->
            CASE k = "path"   -> PathOfLine(ls[i])
              [] k = "head"   -> Substring(ls[h], Len(pfxHEAD))
              [] k = "branch" -> Substring(ls[b], Len(pfxBranch))
              [] OTHER        -> TRUE]

\* the k-th smallest element of a set of numbers
RECURSIVE KthSmallest(_, _)
KthSmallest(S, k) == IF k = 1 THEN Min(S) ELSE KthSmallest(S \ {Min(S)}, k - 1)

----------------------------------------------------------------------------
(* Claims about the lookup of a branch's worktree *)

\* the record's branch is refs/heads/<branchName>
MatchesByRef(wt, b) == "branch" \in DOMAIN wt /\ wt["branch"] = refsHeads \o b

\* the text after the last "/" of the record's path is <repo>-<branchName>
MatchesByName(wt, root, b) ==
    LET FinalSegment(q) ==
            LET cuts == {i \in 1..Len(q) : q[i] = SLASH}
            IN  IF cuts = {} THEN q ELSE SubSeq(q, Max(cuts) + 1, Len(q))
    IN  FinalSegment(wt["path"]) = FinalSegment(root) \o <<"-">> \o b

Matching(wts, root, b) ==
    {i \in 1..Len(wts) : MatchesByRef(wts[i], b) \/ MatchesByName(wts[i], root, b)}

\* C3: the lookup returns undefined exactly when no record matches by branch
\* or by name, and otherwise a record of the sequence that matches.
C3_FindReturnsAMatch ==
    rmCalled =>
        LET hits == Matching(rmWorktrees, gitRootDir, rmBranch)
        IN  /\ (rmFound.index = 0) <=> (hits = {})
            /\ rmFound.index # 0 =>
                  /\ rmFound.index \in hits
                  /\ rmFound.wt = rmWorktrees[rmFound.index]

\* a record found by its name alone, in a listing that also has a record
\* that does not match
C3_Witness ==
    /\ rmCalled
    /\ rmFound.index # 0
    /\ ~MatchesByRef(rmFound.wt, rmBranch)
    /\ MatchesByName(rmFound.wt, gitRootDir, rmBranch)
    /\ Matching(rmWorktrees, gitRootDir, rmBranch) # 1..Len(rmWorktrees)

\* one record matches by branch and a different record matches by name only
RefAndNameOnlyRecords ==
    \E i, j \in 1..Len(rmWorktrees) :
        /\ i # j
        /\ MatchesByRef(rmWorktrees[i], rmBranch)
        /\ MatchesByName(rmWorktrees[j], gitRootDir, rmBranch)
        /\ ~MatchesByRef(rmWorktrees[j], rmBranch)

\* C4 as claimed: with one record matching by branch and another by name only,
\* the lookup returns the record matching by branch, whatever their order.
C4_PrefersRefEquality ==
    (rmCalled /\ RefAndNameOnlyRecords) =>
        (rmFound.index # 0 /\ MatchesByRef(rmFound.wt, rmBranch))

\* C4 as amended: the lookup returns the first record of the sequence that
\* matches in either way; with one record matching by branch and another by
\* name only it returns whichever of the two comes first.
C4_FirstMatchWins ==
    rmCalled =>
        LET hits == Matching(rmWorktrees, gitRootDir, rmBranch)
        IN  hits # {} => rmFound.index = Min(hits)

\* the record matching by name only comes first and is the one returned
C4_Witness ==
    /\ rmCalled
    /\ RefAndNameOnlyRecords
    /\ rmFound.index = 1
    /\ ~MatchesByRef(rmFound.wt, rmBranch)

----------------------------------------------------------------------------
(* Claims about validateBranchName *)

\* rule 1: white space, or one of ~ ^ : ? * [ \
HasForbiddenChar(n) ==
    \E i \in 1..Len(n) :
        n[i] \in {" ", "\t", "\n", "\r", "~", "^", ":", "?", "*", "[", "\\"}

\* rule 2: starts with - or +, ends with . or with .lock
HasBadStartOrEnd(n) ==
    \/ (n # <<>> /\ n[1] \in {"-", "+"})
    \/ (n # <<>> /\ n[Len(n)] = ".")
    \/ (Len(n) >= 5 /\ n[Len(n) - 4] = "." /\ n[Len(n) - 3] = "l" /\ n[Len(n) - 2] = "o"
            /\ n[Len(n) - 1] = "c" /\ n[Len(n)] = "k")

\* rule 3: contains .. or @{
HasBadSequence(n) ==
    \E i \in 1..(Len(n) - 1) :
        \/ (n[i] = "." /\ n[i + 1] = ".")
        \/ (n[i] = "@" /\ n[i + 1] = "{")

\* C5: validateBranchName returns true exactly for the names no rule matches,
\* and otherwise the reason of the first rule that matches, in the order
\* characters, start and end, sequences.
C5_VerdictIsFirstRule ==
    vCalled =>
        vVerdict =
            IF HasForbiddenChar(vName)
            THEN [ok |-> FALSE, reason |-> "Branch name contains invalid characters"]
            ELSE IF HasBadStartOrEnd(vName)
            THEN [ok |-> FALSE, reason |-> "Invalid branch name format"]
            ELSE IF HasBadSequence(vName)
            THEN [ok |-> FALSE, reason |-> "Branch name contains invalid sequences"]
            ELSE [ok |-> TRUE]

\* a name that the second and the third rule both match gets the second's reason
C5_Witness ==
    /\ vCalled
    /\ ~HasForbiddenChar(vName)
    /\ HasBadStartOrEnd(vName)
    /\ HasBadSequence(vName)
    /\ vVerdict = [ok |-> FALSE, reason |-> "Invalid branch name format"]

\* the names git refuses as branch names and the claim lists: the empty name,
\* a leading, trailing or doubled "/", a path component starting with ".", a
\* path component ending in ".lock", and the single name "@"
GitRefuses(n) ==
    \/ n = <<>>
    \/ n = <<"@">>
    \/ StartsWith(n, <<"/">>)
    \/ EndsWith(n, <<"/">>)
    \/ Includes(n, <<"/", "/">>)
    \/ StartsWith(n, <<".">>)
    \/ Includes(n, <<"/", ".">>)
    \/ EndsWith(n, dotLock)
    \/ Includes(n, dotLock \o <<"/">>)

\* C6: every name validateBranchName accepts is a name git accepts, so none
\* of the names git refuses is accepted.
C6_AcceptsOnlyGitNames ==
    (vCalled /\ vVerdict.ok) => ~GitRefuses(vName)

----------------------------------------------------------------------------
(* Claims about getExistingBranches *)

\* the name each printed line is normalized to
CleanedLines == [i \in 1..Len(brLines) |-> CleanBranch(brLines[i])]

\* the first line that is normalized to the name n
FirstLineOf(n) == Min({i \in 1..Len(brLines) : CleanedLines[i] = n})

\* C7: every distinct non-empty normalized name is returned exactly once, in
\* the order of the first lines the names come from, and no empty string is
\* returned; a local branch and its remotes/origin/ branch are one entry.
C7_DistinctInFirstOccurrenceOrder ==
    brCalled =>
        /\ \A i \in 1..Len(brLines) :
              CleanedLines[i] # <<>> =>
                  Cardinality({k \in 1..Len(branches) : branches[k] = CleanedLines[i]}) = 1
        /\ \A k \in 1..Len(branches) :
              /\ branches[k] # <<>>
              /\ \E i \in 1..Len(brLines) : CleanedLines[i] = branches[k]
        /\ \A k1, k2 \in 1..Len(branches) :
              k1 < k2 => FirstLineOf(branches[k1]) < FirstLineOf(branches[k2])
        /\ \A n \in {nameX, nameMain} :
              (\E i, j \in 1..Len(brLines) :
                    /\ brLines[i] = indent \o n
                    /\ brLines[j] = indent \o remotesOrigin \o n)
                 => Cardinality({k \in 1..Len(branches) : branches[k] = n}) = 1

\* a local branch, its remote-tracking branch and another branch: two names
C7_Witness ==
    /\ brCalled
    /\ brLines = <<indent \o nameX, indent \o remotesOrigin \o nameX, <<"+", " ">> \o nameY>>
    /\ branches = <<nameX, nameY>>

\* normal form of a branch name: no leading "*", no leading "+" or "-" marker
\* (the sign and white space after it), no leading remotes/origin/, no white
\* space around it
NormalForm(n) ==
    /\ ~StartsWith(n, <<"*">>)
    /\ ~(Len(n) >= 2 /\ n[1] \in {"+", "-"} /\ IsSpace(n[2]))
    /\ ~StartsWith(n, remotesOrigin)
    /\ n # <<>> => (~IsSpace(n[1]) /\ ~IsSpace(n[Len(n)]))

\* C8 as claimed: every name returned, for every list of lines, is in normal form.
C8_AllNamesNormal ==
    brCalled => \A k \in 1..Len(branches) : NormalForm(branches[k])

\* names that begin with no marker and no prefix
PlainNames == {nameX, nameY, nameMain}

\* the lines that hold one name behind at most one marker of each kind and at
\* most one remotes/origin/ prefix
SingleLayerLines ==
    { lead \o mark \o pfx \o core \o trail :
        lead  \in {<<>>, indent, <<"*", " ">>},
        mark  \in {<<>>, <<"+", " ">>, <<"-", " ">>},
        pfx   \in {<<>>, remotesOrigin},
        core  \in PlainNames,
        trail \in {<<>>, <<" ">>} }

AllLinesSingleLayer ==
    \A i \in 1..Len(brLines) : brLines[i] = <<>> \/ brLines[i] \in SingleLayerLines

\* C8 as amended: when no line nests a second marker or prefix behind the one
\* that is removed, every name returned is the bare name of its line and is
\* in normal form.
C8_SingleLayerNamesNormal ==
    (brCalled /\ AllLinesSingleLayer) =>
        \A k \in 1..Len(branches) : branches[k] \in PlainNames /\ NormalForm(branches[k])

\* a marker line and a remotes/origin/ line, both normalized
C8_Witness ==
    /\ brCalled
    /\ AllLinesSingleLayer
    /\ \E i \in 1..Len(brLines) : brLines[i] = <<"*", " ">> \o nameMain
    /\ \E i \in 1..Len(brLines) : brLines[i] = indent \o remotesOrigin \o nameX
    /\ branches = <<nameMain, nameX>>

\* the list returned when the returned names are fed back in as lines
FedBack == getExistingBranches(Str(BranchListingText(branches)))

\* C9 as claimed: for every list of lines, feeding the returned list back in
\* returns the same list.
C9_AlwaysIdempotent == brCalled => FedBack = branches

\* C9 as amended: feeding the returned list back in returns the same list
\* whenever every returned name is in normal form.
C9_IdempotentOnNormalNames ==
    (brCalled /\ \A k \in 1..Len(branches) : NormalForm(branches[k])) => FedBack = branches

\* three names, all in normal form, returned again when fed back
C9_Witness ==
    /\ brCalled
    /\ Len(branches) = 3
    /\ \A k \in 1..Len(branches) : NormalForm(branches[k])
    /\ FedBack = branches

----------------------------------------------------------------------------
(* Claims about the removal menu *)

\* the branch b is an entry of the section 'Branches Without Worktrees'
ListedWithoutWorktree(b) ==
    mnMenu.shown /\ \E k \in 1..Len(mnMenu.branchEntries) : mnMenu.branchEntries[k] = b

\* some worktree record is on the branch b
SomeWorktreeOn(b) ==
    \E i \in 1..Len(mnWorktrees) :
        "branch" \in DOMAIN mnWorktrees[i] /\ mnWorktrees[i]["branch"] = refsHeads \o b

\* C10: in the menu of interactiveRemove a branch of the branch list is under
\* 'Branches Without Worktrees' exactly when no worktree record is on
\* refs/heads/<branch> and the branch is neither main nor master; main and
\* master are never there.
C10_BranchOnlyEntries ==
    (mnCalled /\ mnMenu.shown) =>
        /\ \A b \in MnBranchNames :
              ListedWithoutWorktree(b) <=>
                  /\ \E i \in 1..Len(mnBranches) : mnBranches[i] = b
                  /\ ~SomeWorktreeOn(b)
                  /\ b \notin {nameMain, nameMaster}
        /\ ~ListedWithoutWorktree(nameMain)
        /\ ~ListedWithoutWorktree(nameMaster)
        /\ \A k \in 1..Len(mnMenu.branchEntries) : mnMenu.branchEntries[k] \in MnBranchNames

\* the menu is shown, main is a branch no worktree is on, and only x is listed
C10_Witness ==
    /\ mnCalled
    /\ mnMenu.shown
    /\ mnBranches = <<nameMain, nameX>>
    /\ ~SomeWorktreeOn(nameMain)
    /\ ~SomeWorktreeOn(nameX)
    /\ mnMenu.branchEntries = <<nameX>>

----------------------------------------------------------------------------
(* Claims about the commands: spawn, spawn remove, spawn merge *)

\* a `git worktree add`, with or without -b
IsAdd(e) == e.ev = "git" /\ e.what \in {"worktree add", "worktree add -b"}

IsMutating(e) ==
    e.ev = "git" /\ e.what \in {"worktree add", "worktree add -b", "worktree remove --force",
                                 "worktree prune", "branch -D", "merge"}

Said(what) == \E i \in 1..Len(cliLog) : cliLog[i].ev = "message" /\ cliLog[i].what = what

\* C11: the menu of interactive spawn has neither main nor master among its
\* 'Branches Without Worktrees' entries.
C11_MenuNeverOffersMain ==
    (cliCmd = "spawn" /\ cliPc = "menu") =>
        /\ ~ListIncludes(cliMenu.branchEntries, nameMain)
        /\ ~ListIncludes(cliMenu.branchEntries, nameMaster)

\* C12: every `git worktree add` of spawn carries a branch name for which
\* validateBranchName returned true earlier in the invocation.
C12_AddOnlyValidatedNames ==
    cliCmd = "spawn" =>
        \A i \in 1..Len(cliLog) :
            IsAdd(cliLog[i]) =>
                \E j \in 1..(i - 1) :
                    /\ cliLog[j].ev = "validate"
                    /\ cliLog[j].ok
                    /\ cliLog[j].branch = cliLog[i].branch

\* spawn was given a branch name the validator rejects, and its action ran
RejectedNameGiven ==
    /\ cliCmd = "spawn"
    /\ cliPc # "start"
    /\ ~Falsy(cliArgs.branchName)
    /\ ~validateBranchName(cliArgs.branchName.str).ok

\* the reason is reported, the status is 1, nothing was changed
ReportedAndLeftAlone ==
    /\ cliExit = "exit1"
    /\ \E i \in 1..Len(cliLog) :
          /\ cliLog[i].ev = "error"
          /\ cliLog[i].what = validateBranchName(cliArgs.branchName.str).reason
    /\ \A i \in 1..Len(cliLog) : ~IsMutating(cliLog[i]) /\ cliLog[i].ev # "chdir"

\* C13 as stated: whenever spawn is given a name the validator rejects, the
\* reason is reported and the process exits with status 1 without a mutating
\* git command and without a change of directory.
C13_RejectedNameExitsOne == RejectedNameGiven => ReportedAndLeftAlone

\* C13 amended: the same, when --list is not given; with --list the name is
\* not looked at.
C13_RejectedNameExitsOneUnlessList ==
    (RejectedNameGiven /\ ~cliArgs.list) => ReportedAndLeftAlone

\* `spawn x~` in a repository
C13_Witness ==
    /\ RejectedNameGiven
    /\ ~cliArgs.list
    /\ cliEnv.inRepo
    /\ cliArgs.branchName = Str(nameTilde)
    /\ cliExit = "exit1"
    /\ Len(cliLog) = 2

\* the overwrite prompt was answered at position a of the log
OverwriteAnswer(a, yes) ==
    cliLog[a].ev = "answer" /\ cliLog[a].what = "overwrite" /\ cliLog[a].ok = yes

\* C14: a `git worktree add` for a path that existed when it was tested comes
\* after a yes to the overwrite prompt and a successful `git worktree remove`
\* of that path; after a no, or after a removal that failed, the process has
\* exited with status 1 and there is no `git worktree add`.
C14_NeverSilentlyOverwritten ==
    cliCmd = "spawn" =>
        /\ \A c, i \in 1..Len(cliLog) :
              ( /\ c < i
                /\ cliLog[c].ev = "exists" /\ cliLog[c].ok
                /\ IsAdd(cliLog[i]) /\ cliLog[i].path = cliLog[c].path )
              => \E a, r \in 1..Len(cliLog) :
                    /\ c < a /\ a < r /\ r < i
                    /\ OverwriteAnswer(a, TRUE)
                    /\ cliLog[r].ev = "git" /\ cliLog[r].what = "worktree remove --force"
                    /\ cliLog[r].path = cliLog[c].path /\ cliLog[r].ok
        /\ \A a \in 1..Len(cliLog) :
              ( \/ OverwriteAnswer(a, FALSE)
                \/ /\ OverwriteAnswer(a, TRUE)
                   /\ a < Len(cliLog)
                   /\ cliLog[a + 1].what = "worktree remove --force" /\ ~cliLog[a + 1].ok )
              => /\ cliExit = "exit1"
                 /\ \A i \in 1..Len(cliLog) : ~IsAdd(cliLog[i])

\* /p/r-x existed, the user said yes, the removal succeeded, the add was issued
C14_Witness ==
    /\ cliCmd = "spawn"
    /\ cliPc = "exited"
    /\ \E c, a, i \in 1..Len(cliLog) :
          /\ c < a /\ a + 1 < i
          /\ cliLog[c].ev = "exists" /\ cliLog[c].ok /\ cliLog[c].path = pathRX
          /\ OverwriteAnswer(a, TRUE)
          /\ cliLog[a + 1].what = "worktree remove --force" /\ cliLog[a + 1].ok
          /\ IsAdd(cliLog[i]) /\ cliLog[i].path = pathRX

\* C15: whenever `git merge` fails with CONFLICT in its output, performMerge
\* reports the conflict and not the generic error, and issues no command that
\* changes the repository afterwards.
C15_ConflictIsReported ==
    \A i \in 1..Len(cliLog) :
        ( /\ cliLog[i].ev = "git" /\ cliLog[i].what = "merge"
          /\ ~cliLog[i].ok
          /\ Includes(cliLog[i].out, kwCONFLICT) )
        => /\ Said("Merge conflict detected")
           /\ Said("To resolve")
           /\ ~Said("Error during merge")
           /\ \A k \in (i + 1)..Len(cliLog) : ~IsMutating(cliLog[k])

\* a destructive confirmation was declined
Declined ==
    \E i \in 1..Len(cliLog) :
        /\ cliLog[i].ev = "answer"
        /\ cliLog[i].what \in {"overwrite", "forceRemove", "confirmDelete", "removeBranch"}
        /\ ~cliLog[i].ok

\* the name given on the command line was validated and rejected
ValidationFailed == \E i \in 1..Len(cliLog) : cliLog[i].ev = "error"

\* C16: a declined destructive confirmation ends the process with status 1;
\* status 0 means no validation failure, no missing repository and no
\* declined destructive confirmation.
C16_DeclineExitsOne ==
    cliPc = "exited" =>
        /\ Declined => cliExit = "exit1"
        /\ cliExit = "exit0" => (cliEnv.inRepo /\ ~Declined /\ ~ValidationFailed)

\* C17: outside a git repository every command reports 'Not in a git
\* repository' and exits with status 1, having issued no git command but the
\* repository check and shown no prompt.  (Stated for invocations whose
\* branch name, if there is one, passes the validator.)
C17_OutsideRepository ==
    ( /\ ~cliEnv.inRepo
      /\ cliPc # "start"
      /\ cliCmd \in {"spawn", "remove", "merge"}
      /\ (Falsy(cliArgs.branchName) \/ validateBranchName(cliArgs.branchName.str).ok) )
    => /\ cliExit = "exit1"
       /\ Said("Error: Not in a git repository")
       /\ \A i \in 1..Len(cliLog) :
             /\ cliLog[i].ev = "git" => cliLog[i].what = "rev-parse --is-inside-work-tree"
             /\ cliLog[i].ev # "prompt"

----------------------------------------------------------------------------
(* Claims about getWorktrees: failed commands, flags and kinds of record *)

\* C18: getWorktrees returns the empty sequence when the listing command
\* fails (executeCommand gave null) and when it printed nothing.
C18_EmptyOnFailureOrNoOutput ==
    (wtCalled /\ (wtFailed \/ wtText = <<>>)) => worktrees = <<>>

\* the command printed two stanzas and failed
C18_Witness ==
    /\ wtCalled
    /\ wtFailed
    /\ Len(StanzaHeads) = 2
    /\ MadeOfStanzas
    /\ worktrees = <<>>

\* git marks the stanza starting at line i as prunable: a line `prunable`, or
\* `prunable <reason>`
MarkedPrunable(ls, i) ==
    \E j \in (i + 1)..StanzaEnd(ls, i) :
        ls[j] = kwPrunable \/ StartsWith(ls[j], kwPrunable \o <<" ">>)

\* C19: a record has prunable = true exactly when its stanza has a `prunable`
\* line, with or without a reason after the keyword.
C19_PrunableFlagFollowsGit ==
    (wtCalled /\ ~wtFailed) =>
        LET ls     == LoopLines
            starts == StanzaStarts(ls)
        IN  /\ Len(worktrees) = Cardinality(starts)
            /\ \A k \in 1..Cardinality(starts) :
                  ("prunable" \in DOMAIN worktrees[k])
                      <=> MarkedPrunable(ls, KthSmallest(starts, k))

\* the kinds a record claims: on a branch, detached, bare
KindsOf(wt) == {k \in {"branch", "detached", "bare"} : k \in DOMAIN wt}

\* C20 as stated: every record, for every input text, is of at most one of
\* the kinds branch, detached and bare (none of them being the fourth case).
C20_ExactlyOneKind ==
    wtCalled => \A k \in 1..Len(worktrees) : Cardinality(KindsOf(worktrees[k])) <= 1

\* the kinds the lines of the stanza starting at line i name
StanzaKinds(ls, i) ==
    LET e == StanzaEnd(ls, i)
    IN  (IF \E j \in (i + 1)..e : StartsWith(ls[j], pfxBranch) THEN {"branch"} ELSE {})
        \cup (IF \E j \in (i + 1)..e : StartsWith(ls[j], kwDetached) THEN {"detached"} ELSE {})
        \cup (IF \E j \in (i + 1)..e : ls[j] = kwBare THEN {"bare"} ELSE {})

\* no stanza of the text names two kinds, as in what git prints
OneKindPerStanza ==
    \A i \in StanzaStarts(LoopLines) : Cardinality(StanzaKinds(LoopLines, i)) <= 1

\* C20 amended: when no stanza of the text names more than one of branch,
\* detached and bare, every record is of at most one of these kinds.
C20_OneKindWhenStanzasAre ==
    (wtCalled /\ ~wtFailed /\ OneKindPerStanza) =>
        \A k \in 1..Len(worktrees) : Cardinality(KindsOf(worktrees[k])) <= 1

\* one worktree on a branch, its stanza with a HEAD line
C20_Witness ==
    /\ wtCalled
    /\ ~wtFailed
    /\ OneKindPerStanza
    /\ Len(worktrees) = 1
    /\ DOMAIN worktrees[1] = {"path", "head", "branch"}

----------------------------------------------------------------------------
(* Claims about getWorktrees: paths of the records *)

\* no two records of the returned list have the same path
PathsDistinct ==
    \A i, j \in 1..Len(worktrees) :
        i < j => worktrees[i]["path"] # worktrees[j]["path"]

HeadsDistinct ==
    \A i, j \in 1..Len(StanzaHeads) :
        i < j => Trim(PathOfLine(StanzaHeads[i])) # Trim(PathOfLine(StanzaHeads[j]))

----------------------------------------------------------------------------
(* Claims about the options of spawn *)

IsLaunch(e) == e.ev = "launch"

\* C22: when --no-editor is given no editor process is launched, whichever
\* path the invocation takes: a worktree created for a new branch, for an
\* existing branch, or a switch to an existing worktree.
C22_NoEditorLaunchesNothing ==
    (cliCmd = "spawn" /\ cliArgs.noEditor) =>
        \A i \in 1..Len(cliLog) : ~IsLaunch(cliLog[i])

\* C23: with --from-existing, once the user has picked a branch from the list
\* of existing branches, every `git worktree add` of the invocation names the
\* picked branch and has no -b.
C23_FromExistingAddsWithoutNewBranchFlag ==
    (cliCmd = "spawn" /\ cliArgs.fromExisting) =>
        \A i \in 1..Len(cliLog) :
            (cliLog[i].ev = "answer" /\ cliLog[i].what = "branchName") =>
                \A j \in (i + 1)..Len(cliLog) :
                    IsAdd(cliLog[j]) => /\ cliLog[j].what = "worktree add"
                                        /\ cliLog[j].branch = cliLog[i].branch

----------------------------------------------------------------------------
(* Claims about the naming of worktrees *)

\* the record git lists for a worktree at `path` once its HEAD is detached:
\* nothing but the path can match it to a branch name
ByPathOnly(path) == [path |-> path, head |-> sha1, detached |-> TRUE]

\* C24: for a branch name the validator accepts, the path of the worktree
\* the creation routine adds ends in the segment `<basename(root)>-<name>`,
\* so removeWorktree's search matches the worktree to the name by its path
\* alone.
C24_CreatedPathMatchesByName ==
    cliCmd = "spawn" =>
        \A i \in 1..Len(cliLog) :
            (cliLog[i].ev = "git" /\ cliLog[i].what = "worktree add -b" /\ cliLog[i].ok
                  /\ validateBranchName(cliLog[i].branch).ok) =>
                /\ Basename(cliLog[i].path) = Basename(cliEnv.gitRoot) \o <<"-">> \o cliLog[i].branch
                /\ FindWorktree(<<ByPathOnly(cliLog[i].path)>>, cliEnv.gitRoot,
                                cliLog[i].branch).index = 1

----------------------------------------------------------------------------
(* Claims about removeWorktree *)

IsRemove(e) == e.ev = "git" /\ e.what = "worktree remove --force"

IsBranchDelete(e) == e.ev = "git" /\ e.what = "branch -D"

\* `spawn remove <name>` has run removeWorktree for a name whose record, as
\* worktrees.find returns it, is the worktree the command runs in
RemovalOfCurrentRequested ==
    /\ cliCmd = "remove"
    /\ cliPc # "start"
    /\ cliEnv.inRepo
    /\ ~Falsy(cliArgs.branchName)
    /\ LET found == FindWorktree(cliEnv.worktrees, cliEnv.gitRoot, cliArgs.branchName.str)
       IN  found.index # 0 /\ found.wt["path"] = cliEnv.gitRoot

\* C25: removeWorktree issues no `git worktree remove` for the path of the
\* current git root; when the record found for the requested name is the
\* current worktree the process exits with status 1 before any removal of a
\* worktree or deletion of a branch; the menu of interactive removal does not
\* list the current worktree.
C25_CurrentWorktreeNeverRemoved ==
    cliCmd \in {"remove", "merge"} =>
        /\ \A i \in 1..Len(cliLog) : IsRemove(cliLog[i]) => cliLog[i].path # cliEnv.gitRoot
        /\ (RemovalOfCurrentRequested \/ Said("Error: Cannot remove the current worktree")) =>
              /\ cliExit = "exit1"
              /\ \A i \in 1..Len(cliLog) : ~IsRemove(cliLog[i]) /\ ~IsBranchDelete(cliLog[i])
        /\ cliPc = "removeMenu" =>
              \A i \in 1..Len(cliMenu.worktreeEntries) :
                  cliMenu.worktreeEntries[i].path # cliEnv.gitRoot

\* `spawn remove x` in the worktree that has x checked out, a second worktree
\* being listed
C25_Witness ==
    /\ RemovalOfCurrentRequested
    /\ Len(cliEnv.worktrees) = 2
    /\ cliExit = "exit1"
    /\ Said("Error: Cannot remove the current worktree")

\* git status printed changed files for the worktree at `path`
IsDirtyStatus(e, path) ==
    e.ev = "git" /\ e.what = "status --porcelain" /\ e.path = path /\ e.ok /\ Trim(e.out) # <<>>

IsForceAnswer(e, yes) == e.ev = "answer" /\ e.what = "forceRemove" /\ e.ok = yes

\* C26: a worktree whose directory exists and for which `git status` printed
\* changes is removed only after the user answered yes to the force-remove
\* prompt; after a no, removeWorktree returns false and the invocation has
\* issued neither `git worktree remove` nor `git branch -D`.
C26_DirtyRemovedOnlyAfterYes ==
    cliCmd \in {"remove", "merge"} =>
        /\ \A i \in 1..Len(cliLog) :
              IsRemove(cliLog[i]) =>
                  \A j \in 1..(i - 1) :
                      IsDirtyStatus(cliLog[j], cliLog[i].path) =>
                          \E k \in (j + 1)..(i - 1) : IsForceAnswer(cliLog[k], TRUE)
        /\ \A i \in 1..Len(cliLog) :
              \* (the status of a worktree: performMerge asks for that of the
              \* current directory, without a path)
              (cliLog[i].path # <<>> /\ IsDirtyStatus(cliLog[i], cliLog[i].path)) =>
                  \/ cliPc = "forceRemove"
                  \/ \E k \in (i + 1)..Len(cliLog) :
                         IsForceAnswer(cliLog[k], TRUE) \/ IsForceAnswer(cliLog[k], FALSE)
        /\ \A i \in 1..Len(cliLog) :
              IsForceAnswer(cliLog[i], FALSE) =>
                  /\ cliLog[Len(cliLog)] = Returned(FALSE)
                  /\ \A k \in 1..Len(cliLog) :
                         ~IsRemove(cliLog[k]) /\ ~IsBranchDelete(cliLog[k])

\* the worktree of x has changes, the user says yes and it is removed
C26_Witness ==
    /\ cliCmd = "remove"
    /\ \E i \in 1..Len(cliLog) :
          /\ IsRemove(cliLog[i]) /\ cliLog[i].ok
          /\ cliLog[i].path \in cliEnv.onDisk
          /\ \E k \in 1..(i - 1) :
                /\ IsForceAnswer(cliLog[k], TRUE)
                /\ \E j \in 1..(k - 1) : IsDirtyStatus(cliLog[j], cliLog[i].path)

\* the run of `git log <main>..<branch>` hasUnmergedCommits made for `branch`
IsUnmergedCheck(e, branch) == e.ev = "git" /\ e.what = "log main..branch" /\ e.branch = branch

\* the check found commits the main branch lacks, or its command failed
ReportedUnmerged(e) == ~e.ok \/ Trim(e.out) # <<>>

IsYes(e, what) == e.ev = "answer" /\ e.what = what /\ e.ok

\* C27: `git branch -D <branch>` is issued only for a branch of the list
\* getExistingBranches returned, after the unmerged-commit check, and
\* (a) the check reported unmerged commits or failed, and the user said yes to
\*     confirmDelete; or
\* (b) the check reported none and the worktree was removed in this call; or
\* (c) the check reported none, no worktree was removed, and the user said
\*     yes to removeBranch.
C27_BranchDeletedOnlyWhenAllowed ==
    cliCmd \in {"remove", "merge"} =>
        \A i \in 1..Len(cliLog) :
            IsBranchDelete(cliLog[i]) =>
                /\ ListIncludes(ExistingBranchesOf(cliEnv), cliLog[i].branch)
                /\ \E j \in 1..(i - 1) :
                      /\ IsUnmergedCheck(cliLog[j], cliLog[i].branch)
                      /\ LET removed == \E r \in 1..(j - 1) : IsRemove(cliLog[r]) /\ cliLog[r].ok
                             yesTo(what) == \E k \in (j + 1)..(i - 1) : IsYes(cliLog[k], what)
                         IN  IF ReportedUnmerged(cliLog[j]) THEN yesTo("confirmDelete")
                             ELSE removed \/ yesTo("removeBranch")

\* the check of x fails, the user says yes, the branch is deleted
C27_Witness ==
    /\ cliCmd = "remove"
    /\ \E i \in 1..Len(cliLog) :
          /\ IsBranchDelete(cliLog[i]) /\ cliLog[i].ok
          /\ \E k \in 1..(i - 1) :
                /\ IsYes(cliLog[k], "confirmDelete")
                /\ \E j \in 1..(k - 1) :
                      IsUnmergedCheck(cliLog[j], cliLog[i].branch) /\ ~cliLog[j].ok

\* `spawn remove <name>` has run removeWorktree for a name that matches no
\* worktree record and no branch of the list
NothingMatchesRequested ==
    /\ cliCmd = "remove"
    /\ cliPc # "start"
    /\ cliEnv.inRepo
    /\ ~Falsy(cliArgs.branchName)
    /\ FindWorktree(cliEnv.worktrees, cliEnv.gitRoot, cliArgs.branchName.str).index = 0
    /\ ~ListIncludes(ExistingBranchesOf(cliEnv), cliArgs.branchName.str)

\* C28: when `git worktree remove` fails, removeWorktree returns false and
\* neither asks about the branch nor deletes it; when the requested name
\* matches no worktree record and no branch, it returns false and no mutating
\* git command has been issued.
C28_FailuresReturnFalse ==
    cliCmd \in {"remove", "merge"} =>
        /\ \A i \in 1..Len(cliLog) :
              (IsRemove(cliLog[i]) /\ ~cliLog[i].ok) =>
                  /\ cliPc = "exited"
                  /\ cliLog[Len(cliLog)] = Returned(FALSE)
                  /\ \A k \in (i + 1)..Len(cliLog) :
                         cliLog[k].ev # "prompt" /\ ~IsBranchDelete(cliLog[k])
        /\ (NothingMatchesRequested \/ Said("No worktree or branch found")) =>
              /\ cliPc = "exited"
              /\ cliLog[Len(cliLog)] = Returned(FALSE)
              /\ \A k \in 1..Len(cliLog) : ~IsMutating(cliLog[k])

\* the removal of the worktree of x fails, x being a branch of the list
C28_Witness ==
    /\ cliCmd = "remove"
    /\ cliArgs.branchName = Str(nameX)
    /\ ListIncludes(ExistingBranchesOf(cliEnv), nameX)
    /\ \E i \in 1..Len(cliLog) : IsRemove(cliLog[i]) /\ ~cliLog[i].ok
    /\ cliLog[Len(cliLog)] = Returned(FALSE)

----------------------------------------------------------------------------
(* Claims about performMerge *)

IsMerge(e) == e.ev = "git" /\ e.what = "merge"

\* getExistingBranches was called for the list performMerge searches
IsBranchListing(e) == e.ev = "git" /\ e.what = "branch -a"

\* `git status --porcelain` of the current directory
IsOwnStatus(e) == e.ev = "git" /\ e.what = "status --porcelain" /\ e.path = <<>>

\* the count of getBranchAheadBehind for `branch`
IsAheadCount(e, branch) ==
    e.ev = "git" /\ e.what = "rev-list --left-right --count" /\ e.branch = branch

\* the count printed at least one commit ahead
CountsAhead(e) == e.ok /\ Trim(e.out) = <<"0", TAB, "1">>

IsNo(e, what) == e.ev = "answer" /\ e.what = what /\ ~e.ok

\* C29: `git merge` is issued only after, in this order, the branch was found
\* in the list of getExistingBranches, the working tree was found without
\* uncommitted changes, the branch was counted at least one commit ahead of
\* the current branch, and the user said yes to confirmMerge; when one of
\* them fails there is no merge command; the removal of the merged branch and
\* its worktree starts only after a successful merge and a yes to the second
\* question.
C29_MergeOnlyAfterChecks ==
    cliCmd = "merge" =>
        /\ \A m \in 1..Len(cliLog) :
              IsMerge(cliLog[m]) =>
                  /\ ListIncludes(ExistingBranchesOf(cliEnv), cliLog[m].branch)
                  /\ \E d \in 1..(m - 1) :
                        /\ IsYes(cliLog[d], "confirmMerge")
                        /\ \E c \in 1..(d - 1) :
                              /\ IsAheadCount(cliLog[c], cliLog[m].branch)
                              /\ CountsAhead(cliLog[c])
                              /\ \E b \in 1..(c - 1) :
                                    /\ IsOwnStatus(cliLog[b])
                                    /\ ~IsDirtyStatus(cliLog[b], <<>>)
                                    /\ \E a \in 1..(b - 1) : IsBranchListing(cliLog[a])
        /\ \A i \in 1..Len(cliLog) :
              ( \/ IsDirtyStatus(cliLog[i], <<>>)
                \/ (cliLog[i].ev = "git" /\ cliLog[i].what = "rev-list --left-right --count"
                       /\ cliLog[i].branch # <<>> /\ ~CountsAhead(cliLog[i]))
                \/ IsNo(cliLog[i], "confirmMerge")
                \/ cliLog[i] = Say("Error: Branch does not exist") ) =>
                  \A m \in 1..Len(cliLog) : ~IsMerge(cliLog[m])
        /\ \A r \in 1..Len(cliLog) :
              ( \/ cliLog[r] = Say("Removing branch and its worktree")
                \/ IsRemove(cliLog[r])
                \/ IsBranchDelete(cliLog[r])
                \/ cliLog[r].ev = "return" ) =>
                  \E k \in 1..(r - 1) :
                      /\ IsYes(cliLog[k], "removeMerged")
                      /\ \E m \in 1..(k - 1) : IsMerge(cliLog[m]) /\ cliLog[m].ok

\* x is merged, the user says yes twice, the worktree of x is removed
C29_Witness ==
    /\ cliCmd = "merge"
    /\ \E r \in 1..Len(cliLog) :
          /\ IsRemove(cliLog[r]) /\ cliLog[r].ok
          /\ \E k \in 1..(r - 1) :
                /\ IsYes(cliLog[k], "removeMerged")
                /\ \E m \in 1..(k - 1) : IsMerge(cliLog[m]) /\ cliLog[m].ok

----------------------------------------------------------------------------
(* Claims about interactive removal *)

\* the user selected the entry of the 'Worktrees' section shown for `path`
IsWorktreeSelection(e) == e.ev = "answer" /\ e.what = "worktree"

\* C30: in interactive removal, after the user selected an entry of the
\* 'Worktrees' section and declined nothing, the invocation ends having
\* issued `git worktree remove` for the path of that entry and for no other
\* path, whether the entry is that of a branch, of a detached HEAD or of a
\* worktree without a branch.
C30_SelectedWorktreeIsRemoved ==
    (cliCmd = "remove" /\ cliPc = "exited") =>
        \A i \in 1..Len(cliLog) :
            (IsWorktreeSelection(cliLog[i])
                 /\ \A k \in 1..Len(cliLog) : ~IsNo(cliLog[k], "forceRemove")) =>
                /\ \E r \in (i + 1)..Len(cliLog) :
                      IsRemove(cliLog[r]) /\ cliLog[r].path = cliLog[i].path
                /\ \A r \in 1..Len(cliLog) :
                      IsRemove(cliLog[r]) => cliLog[r].path = cliLog[i].path

====
